---- MODULE Spec2Model ----
(***************************************************************************)
(* Mention extraction engine of mts-mockup: api/services/transcriptMentions*)
(* (the three matching strategies, the embedding cache, the deduplicator   *)
(* and the orchestrator), modelled as a state machine.                     *)
(*                                                                         *)
(* Strings are sequences of one-character strings.  Scores are fixed-point *)
(* integers with four decimals (ScoreScale = 1.0), the precision the code  *)
(* rounds to with toFixed(4).                                              *)
(***************************************************************************)
EXTENDS Integers, Sequences, FiniteSets, TLC

VARIABLES
  fuseNear,         \* the score fuse.js gives a pattern and a variant that share a token
  embeddingsCache,  \* const embeddingsCache = new Map<string, number[]>()
  call,             \* the findMentions call: position, arguments, locals, outcome
  dIn, dOut,        \* deduplicateMentions on its own: argument and result
  batchCall,        \* batchGetEmbeddings called on its own: position, texts, outcome
  call2,            \* a second findMentions call in flight beside the first
  app               \* a pure function applied on its own: name, arguments, value

vars == <<fuseNear, embeddingsCache, call, dIn, dOut, batchCall, call2, app>>

\* ------------------------------------------------------------- characters

UpperChars == <<"A","B","C","D","E","F","G","H","I","J","K","L","M",
                "N","O","P","Q","R","S","T","U","V","W","X","Y","Z">>
LowerChars == <<"a","b","c","d","e","f","g","h","i","j","k","l","m",
                "n","o","p","q","r","s","t","u","v","w","x","y","z">>
DigitChars == <<"0","1","2","3","4","5","6","7","8","9">>

Range(f) == {f[i] : i \in DOMAIN f}

\* U+0101, a with macron, and U+0304, the combining macron NFKD splits it into.
AMacron == "a-macron"
CombiningMacron == "combining-macron"

IsUpper(c) == c \in Range(UpperChars)
IsLower(c) == c \in Range(LowerChars)
IsDigit(c) == c \in Range(DigitChars)
\* \p{L}
IsLetter(c) == IsUpper(c) \/ IsLower(c) \/ c = AMacron
\* \w
IsWordChar(c) == IsUpper(c) \/ IsLower(c) \/ IsDigit(c) \/ c = "_"
\* \s
IsSpace(c) == c \in {" ", "\n", "\t"}

toLowerCase(s) ==
  [i \in DOMAIN s |->
     IF IsUpper(s[i])
       THEN LowerChars[CHOOSE k \in DOMAIN UpperChars : UpperChars[k] = s[i]]
       ELSE s[i]]

RECURSIVE NFKD(_)
NFKD(s) ==
  IF s = <<>> THEN <<>>
  ELSE (IF Head(s) = AMacron THEN <<"a", CombiningMacron>> ELSE <<Head(s)>>)
       \o NFKD(Tail(s))

\* .replace(/[\u0300-\u036f]/g, ''): the combining marks are removed
StripMarks(s) == SelectSeq(s, LAMBDA c : c # CombiningMacron)

RECURSIVE trimStart(_)
trimStart(s) ==
  IF s # <<>> /\ IsSpace(Head(s)) THEN trimStart(Tail(s)) ELSE s

RECURSIVE trimEnd(_)
trimEnd(s) ==
  IF s # <<>> /\ IsSpace(s[Len(s)]) THEN trimEnd(SubSeq(s, 1, Len(s) - 1)) ELSE s

trim(s) == trimEnd(trimStart(s))

\* The value of a string field the record lacks.
Undefined == <<"undefined">>

\* norm(s = ''): NFKD, combining marks stripped, lowercased, trimmed.
norm(s) == IF s = Undefined THEN <<>> ELSE trim(toLowerCase(StripMarks(NFKD(s))))

\* s.split(/\s+/): the pieces between maximal runs of whitespace, the empty
\* pieces at either end included.
RECURSIVE SplitFrom(_, _, _, _)
SplitFrom(s, i, cur, acc) ==
  IF i > Len(s) THEN Append(acc, cur)
  ELSE IF IsSpace(s[i])
    THEN IF i < Len(s) /\ IsSpace(s[i + 1])
           THEN SplitFrom(s, i + 1, cur, acc)
           ELSE SplitFrom(s, i + 1, <<>>, Append(acc, cur))
    ELSE SplitFrom(s, i + 1, Append(cur, s[i]), acc)

splitWs(s) == SplitFrom(s, 1, <<>>, <<>>)

\* .filter(Boolean) on an array of strings
filterBoolean(ws) == SelectSeq(ws, LAMBDA w : w # <<>>)

RECURSIVE join(_, _)
join(ws, sep) ==
  IF ws = <<>> THEN <<>>
  ELSE IF Len(ws) = 1 THEN ws[1]
  ELSE ws[1] \o sep \o join(Tail(ws), sep)

\* arr.slice(from, to) with 0-based from, to exclusive, clamped to the length.
slice(arr, from, to) ==
  LET hi == IF to > Len(arr) THEN Len(arr) ELSE to
      lo == IF from < 0 THEN 0 ELSE from
  IN  IF lo >= hi THEN <<>> ELSE SubSeq(arr, lo + 1, hi)

\* `${n}` for a non-negative integer
RECURSIVE NumStr(_)
NumStr(n) ==
  IF n < 10 THEN <<DigitChars[n + 1]>>
  ELSE Append(NumStr(n \div 10), DigitChars[(n % 10) + 1])

IsSubstringAt(s, v, i) ==
  /\ i >= 1
  /\ i + Len(v) - 1 <= Len(s)
  /\ SubSeq(s, i, i + Len(v) - 1) = v

includes(s, v) == \E i \in 1..(Len(s) + 1) : IsSubstringAt(s, v, i)
startsWith(s, v) == IsSubstringAt(s, v, 1)
endsWith(s, v) == IsSubstringAt(s, v, Len(s) - Len(v) + 1)

\* ------------------------------------------------------------- mentions

\* Number(x.toFixed(4)): scores are integers in units of 1/ScoreScale.
ScoreScale == 10000

MatchTypes == {"explicit", "fuzzy", "implicit"}

\* const priority = { 'explicit': 3, 'fuzzy': 2, 'implicit': 1 }
priority(matchType) ==
  CASE matchType = "explicit" -> 3
    [] matchType = "fuzzy" -> 2
    [] matchType = "implicit" -> 1

\* `${m.term}|${m.segmentId}`
mentionKey(m) == m.term \o <<"|">> \o NumStr(m.segmentId)

\* One step of the dedup loop: map is the Map's values in insertion order.
\* Variant: the key is not looked up, every mention is stored.
dedupStep_append(map, m) == Append(map, m)

\* Variant: a mention of equal priority never replaces the one stored.
dedupStep_noTieBreak(map, m) ==
  IF \A i \in DOMAIN map : mentionKey(map[i]) # mentionKey(m)
    THEN Append(map, m)
    ELSE LET i == CHOOSE k \in DOMAIN map : mentionKey(map[k]) = mentionKey(m)
         IN  IF priority(m.matchType) > priority(map[i].matchType)
               THEN [map EXCEPT ![i] = m]
               ELSE map

dedupStep(map, m) ==
  IF \A i \in DOMAIN map : mentionKey(map[i]) # mentionKey(m)
    THEN Append(map, m)
    ELSE LET i == CHOOSE k \in DOMAIN map : mentionKey(map[k]) = mentionKey(m)
             existing == map[i]
             mPriority == priority(m.matchType)
             ePriority == priority(existing.matchType)
         IN  IF mPriority > ePriority
                \/ (mPriority = ePriority /\ m.score > existing.score)
               THEN [map EXCEPT ![i] = m]
               ELSE map

RECURSIVE dedupLoop(_, _)
dedupLoop(map, mentions) ==
  IF mentions = <<>> THEN map
  ELSE dedupLoop(dedupStep(map, Head(mentions)), Tail(mentions))

\* Variant: the comparator stops at the priority.
mentionCompare_priorityOnly(a, b) ==
  priority(b.matchType) - priority(a.matchType)

\* (a, b) => diff !== 0 ? diff : b.score - a.score; negative: a sorts first.
mentionCompare(a, b) ==
  LET diff == priority(b.matchType) - priority(a.matchType)
  IN  IF diff # 0 THEN diff ELSE b.score - a.score

\* Variant: the sort is not stable, x goes before the mentions it ties with.
RECURSIVE sortInsert_unstable(_, _)
sortInsert_unstable(sorted, x) ==
  IF sorted = <<>> THEN <<x>>
  ELSE IF mentionCompare(x, Head(sorted)) <= 0 THEN <<x>> \o sorted
  ELSE <<Head(sorted)>> \o sortInsert_unstable(Tail(sorted), x)

\* Array.prototype.sort is stable: x goes before the first y it must precede.
RECURSIVE sortInsert(_, _)
sortInsert(sorted, x) ==
  IF sorted = <<>> THEN <<x>>
  ELSE IF mentionCompare(x, Head(sorted)) < 0 THEN <<x>> \o sorted
  ELSE <<Head(sorted)>> \o sortInsert(Tail(sorted), x)

RECURSIVE sortMentions(_)
sortMentions(ms) ==
  IF ms = <<>> THEN <<>>
  ELSE sortInsert(sortMentions(SubSeq(ms, 1, Len(ms) - 1)), ms[Len(ms)])

deduplicateMentions(mentions) == sortMentions(dedupLoop(<<>>, mentions))

\* ------------------------------------------------------------- makeId

\* term.replace(/\s+/g, '_')
replaceWsRuns(s) == join(splitWs(s), <<"_">>)

\* `${term.replace(/\s+/g, '_').slice(0,40)}-${segmentId}-${Math.floor(timestamp)}`
makeId(term, segmentId, timestamp) ==
  slice(replaceWsRuns(term), 0, 40) \o <<"-">> \o NumStr(segmentId)
    \o <<"-">> \o NumStr(timestamp)

\* ------------------------------------------------------------- strategy 1

w_of == <<"o","f">>
w_university == <<"u","n","i","v","e","r","s","i","t","y">>
w_hawaii == <<"h","a","w","a","i","i">>
w_manoa == <<"m","a","n","o","a">>
w_hilo == <<"h","i","l","o">>

\* /^[A-Z0-9]{2,6}$/.test(variantRaw.replace(/[^A-Za-z0-9]/g, ''))
\*   || /^[A-Z]{2,6}$/.test(variantRaw)
isAcronym(variantRaw) ==
  LET alnum == SelectSeq(variantRaw,
                 LAMBDA c : IsUpper(c) \/ IsLower(c) \/ IsDigit(c))
  IN  \/ /\ Len(alnum) \in 2..6
         /\ \A i \in DOMAIN alnum : IsUpper(alnum[i]) \/ IsDigit(alnum[i])
      \/ /\ Len(variantRaw) \in 2..6
         /\ \A i \in DOMAIN variantRaw : IsUpper(variantRaw[i])

\* The tokens of the list a single token can equal ('w oahu' and 'west oahu'
\* hold a space and equal no token).
HawaiiTokens ==
  {w_hawaii, w_manoa, w_hilo, <<"o","a","h","u">>, <<"m","a","u","i">>,
   <<"k","a","u","a","i">>, <<"w","e","s","t">>}

\* /\bword\b/.test(s)
hasWord(s, word) ==
  \E i \in 1..Len(s) :
    /\ IsSubstringAt(s, word, i)
    /\ (i = 1 \/ ~IsWordChar(s[i - 1]))
    /\ (i + Len(word) > Len(s) \/ ~IsWordChar(s[i + Len(word)]))

\* new RegExp(`(?<!\\p{L})${escapeRegex(variantNorm)}(?!\\p{L})`, 'u'):
\* the positions (1-based) where the pattern matches.
patternMatchesAt(segmentNorm, variantNorm, i) ==
  /\ IsSubstringAt(segmentNorm, variantNorm, i)
  /\ (i = 1 \/ ~IsLetter(segmentNorm[i - 1]))
  /\ (i + Len(variantNorm) > Len(segmentNorm)
        \/ ~IsLetter(segmentNorm[i + Len(variantNorm)]))

\* match.index + 1 of segmentNorm.match(pattern), 0 when there is no match.
firstMatch(segmentNorm, variantNorm) ==
  LET hits == {i \in 1..(Len(segmentNorm) + 1) :
                 patternMatchesAt(segmentNorm, variantNorm, i)}
  IN  IF hits = {} THEN 0 ELSE CHOOSE i \in hits : \A j \in hits : i <= j

RejectWords ==
  {<<"c","o","u","n","t","y">>,
   <<"t","a","x">>,
   <<"f","o","u","n","d","a","t","i","o","n">>,
   <<"c","h","a","m","b","e","r">>,
   <<"s","t","a","t","e">>,
   <<"f","e","d","e","r","a","l">>,
   <<"d","e","p","t">>,
   <<"d","e","p","a","r","t","m","e","n","t">>,
   <<"o","f","f","i","c","e">>,
   <<"c","i","t","y">>,
   <<"c","o","m","m","i","t","t","e","e">>}

endsWithRejectWord(t) ==
  \E w \in RejectWords :
    /\ endsWith(t, w)
    /\ (Len(t) = Len(w) \/ ~IsWordChar(t[Len(t) - Len(w)]))

\* /\b(county|tax|...|committee)\s+(of\s+)?$/i.test(beforeMatch)
rejectPattern(beforeMatch) ==
  LET b == toLowerCase(beforeMatch)
      t1 == trimEnd(b)
      t2 == SubSeq(t1, 1, Len(t1) - 2)
      t3 == trimEnd(t2)
  IN  /\ Len(t1) < Len(b)
      /\ \/ endsWithRejectWord(t1)
         \/ /\ endsWith(t1, w_of)
            /\ Len(t3) < Len(t2)
            /\ endsWithRejectWord(t3)

NoMention == [matchType |-> "none"]

\* The body of the variant loop for one (term, segment, variant): the mention
\* pushed, or NoMention when the body ends in continue.
explicitVariant(term, segment, variant) ==
  LET variantRaw == trim(variant)
      variantNorm == norm(variantRaw)
      segmentNorm == norm(segment.text)
      acro == isAcronym(variantRaw)
      tokens == filterBoolean(splitWs(variantNorm))
      isHawaiiRelated == \E i \in DOMAIN tokens : tokens[i] \in HawaiiTokens
      at == firstMatch(segmentNorm, variantNorm)
      beforeMatch == slice(segmentNorm, at - 1 - 30, at - 1)
  IN  IF variantRaw = <<>> THEN NoMention
      ELSE IF Len(tokens) = 1 /\ Len(tokens[1]) < 3 /\ ~acro THEN NoMention
      ELSE IF isHawaiiRelated /\ Len(tokens) < 2 /\ ~acro
              /\ ~hasWord(segmentNorm, w_university) THEN NoMention
      ELSE IF at = 0 THEN NoMention
      ELSE IF rejectPattern(beforeMatch) THEN NoMention
      ELSE [id |-> makeId(term.text, segment.id, segment.start),
            termId |-> term.id,
            term |-> term.text,
            matchedText |-> SubSeq(segmentNorm, at, at + Len(variantNorm) - 1),
            segmentId |-> segment.id,
            timestamp |-> segment.start,
            score |-> ScoreScale,
            matchType |-> "explicit"]

\* for (const variant of variants) { if (matched) break; ... }
RECURSIVE explicitFirstVariant(_, _, _)
explicitFirstVariant(term, segment, variants) ==
  IF variants = <<>> THEN <<>>
  ELSE LET m == explicitVariant(term, segment, Head(variants))
       IN  IF m # NoMention THEN <<m>>
           ELSE explicitFirstVariant(term, segment, Tail(variants))

RECURSIVE explicitOverSegments(_, _)
explicitOverSegments(term, segments) ==
  IF segments = <<>> THEN <<>>
  ELSE explicitFirstVariant(term, Head(segments), <<term.text>> \o term.aliases)
       \o explicitOverSegments(term, Tail(segments))

RECURSIVE findExplicitMatches(_, _)
findExplicitMatches(terms, segments) ==
  IF terms = <<>> THEN <<>>
  ELSE explicitOverSegments(Head(terms), segments)
       \o findExplicitMatches(Tail(terms), segments)

\* ------------------------------------------------------------- strategy 2

\* fuse.js is a library outside the repository.  Its score is 0 for a perfect
\* match and 1 for a complete mismatch; the model fixes one deterministic
\* scoring per run: 0 for identical strings, fuseNear for strings that share a
\* token, a complete mismatch otherwise.
tokenSet(s) == Range(splitWs(s))

fuseScore(pattern, variant) ==
  IF pattern = variant THEN 0
  ELSE IF (tokenSet(pattern) \cap tokenSet(variant)) \ {<<>>} # {} THEN fuseNear
  ELSE ScoreScale

\* fuse.search(pattern): the indices of the corpus entries whose score is
\* within fuse's threshold, best score first, then corpus order.
fuseHits(searchCorpus, pattern, threshold) ==
  {k \in DOMAIN searchCorpus :
     fuseScore(pattern, searchCorpus[k].variant) <= threshold}

fuseBest(searchCorpus, pattern, threshold) ==
  LET hits == fuseHits(searchCorpus, pattern, threshold)
      sc(k) == fuseScore(pattern, searchCorpus[k].variant)
  IN  CHOOSE k \in hits :
        \A j \in hits : sc(k) < sc(j) \/ (sc(k) = sc(j) /\ k <= j)

\* The variants of one term that enter the search corpus.
RECURSIVE corpusOfVariants(_, _)
corpusOfVariants(term, variants) ==
  IF variants = <<>> THEN <<>>
  ELSE LET vRaw == trim(Head(variants))
           vNorm == norm(vRaw)
           tokens == filterBoolean(splitWs(vNorm))
           rest == corpusOfVariants(term, Tail(variants))
       IN  IF vRaw = <<>> THEN rest
           ELSE IF Len(tokens) >= 2 \/ Len(tokens[1]) >= 4 \/ isAcronym(vRaw)
             THEN <<[term |-> term, variant |-> vNorm]>> \o rest
             ELSE rest

RECURSIVE buildSearchCorpus(_)
buildSearchCorpus(terms) ==
  IF terms = <<>> THEN <<>>
  ELSE (IF Head(terms).isExplicit # "false"
          THEN corpusOfVariants(Head(terms),
                                <<Head(terms).text>> \o Head(terms).aliases)
          ELSE <<>>)
       \o buildSearchCorpus(Tail(terms))

\* tokens[0].length with tokens empty: the variant is not blank but its
\* normal form is (only combining marks), and the corpus loop throws.
corpusThrows(terms) ==
  \E i \in DOMAIN terms :
    /\ terms[i].isExplicit # "false"
    /\ \E v \in Range(<<terms[i].text>> \o terms[i].aliases) :
         trim(v) # <<>> /\ filterBoolean(splitWs(norm(trim(v)))) = <<>>

\* The body of the phrase loop: the mention pushed for this phrase, or
\* NoMention when the phrase is skipped.
fuzzyPhrase(searchCorpus, segment, phrase, options) ==
  LET phraseNorm == norm(phrase)
      hits == fuseHits(searchCorpus, phraseNorm, options.threshold)
      k == fuseBest(searchCorpus, phraseNorm, options.threshold)
      match == searchCorpus[k]
      score == fuseScore(phraseNorm, match.variant)
      phraseTokens == tokenSet(phraseNorm)
      variantTokens == tokenSet(match.variant)
      overlap == Cardinality(phraseTokens \cap variantTokens)
      smaller == IF Cardinality(phraseTokens) < Cardinality(variantTokens)
                   THEN Cardinality(phraseTokens)
                   ELSE Cardinality(variantTokens)
  IN  IF Len(phraseNorm) < options.minMatchCharLength THEN NoMention
      ELSE IF hits = {} \/ ~(score < options.threshold) THEN NoMention
      \* overlap / Math.min(...) < 0.66
      ELSE IF overlap * 100 < 66 * smaller THEN NoMention
      ELSE IF (includes(phraseNorm, w_hawaii) \/ includes(phraseNorm, w_manoa)
                 \/ includes(phraseNorm, w_hilo))
              /\ ~includes(phraseNorm, w_university) THEN NoMention
      ELSE [id |-> makeId(match.term.text, segment.id, segment.start),
            termId |-> match.term.id,
            term |-> match.term.text,
            matchedText |-> phrase,
            segmentId |-> segment.id,
            timestamp |-> segment.start,
            score |-> ScoreScale - score,
            matchType |-> "fuzzy"]

\* for (const phrase of phrases) { ...; mentions.push(...); break; }
RECURSIVE fuzzyFirstPhrase(_, _, _, _)
fuzzyFirstPhrase(searchCorpus, segment, phrases, options) ==
  IF phrases = <<>> THEN <<>>
  ELSE LET m == fuzzyPhrase(searchCorpus, segment, Head(phrases), options)
       IN  IF m # NoMention THEN <<m>>
           ELSE fuzzyFirstPhrase(searchCorpus, segment, Tail(phrases), options)

\* for (let i = 0; i < words.length; i++): i is 0-based.
RECURSIVE fuzzyOverWords(_, _, _, _, _)
fuzzyOverWords(searchCorpus, segment, words, i, options) ==
  IF i >= Len(words) THEN <<>>
  ELSE LET phrases == <<join(slice(words, i, i + 3), <<" ">>),
                        join(slice(words, i, i + 4), <<" ">>),
                        join(slice(words, i, i + 5), <<" ">>)>>
       IN  fuzzyFirstPhrase(searchCorpus, segment, phrases, options)
           \o fuzzyOverWords(searchCorpus, segment, words, i + 1, options)

RECURSIVE fuzzyOverSegments(_, _, _, _)
fuzzyOverSegments(searchCorpus, segments, alreadyMatched, options) ==
  IF segments = <<>> THEN <<>>
  ELSE (IF NumStr(Head(segments).id) \in alreadyMatched THEN <<>>
        ELSE fuzzyOverWords(searchCorpus, Head(segments),
                            splitWs(Head(segments).text), 0, options))
       \o fuzzyOverSegments(searchCorpus, Tail(segments), alreadyMatched, options)

\* segment.text.split(/\s+/) on a segment that is not skipped and has no text
splitThrows(segments, alreadyMatched) ==
  \E i \in DOMAIN segments :
    /\ NumStr(segments[i].id) \notin alreadyMatched
    /\ segments[i].text = Undefined

findFuzzyMentions(terms, segments, alreadyMatched, options) ==
  fuzzyOverSegments(buildSearchCorpus(terms), segments, alreadyMatched, options)

\* ------------------------------------------------- the iteration in part_008

\* s.normalize('NFKC'): a followed by the combining macron composes.
RECURSIVE NFKC(_)
NFKC(s) ==
  IF s = <<>> THEN <<>>
  ELSE IF Len(s) >= 2 /\ s[1] = "a" /\ s[2] = CombiningMacron
    THEN <<AMacron>> \o NFKC(SubSeq(s, 3, Len(s)))
  ELSE IF Head(s) = AMacron THEN <<AMacron>> \o NFKC(Tail(s))
  ELSE <<Head(s)>> \o NFKC(Tail(s))

norm_p008(s) == trim(toLowerCase(NFKC(s)))

\* Which norm a call uses: the one of the file its findMentions lives in.
normOf(version, s) == IF version = "p008" THEN norm_p008(s) ELSE norm(s)

explicitVariant_p008(term, seg, variant) ==
  LET textNorm == norm_p008(seg.text)
      pattern == <<" ">> \o variant \o <<" ">>
  IN  IF includes(textNorm, pattern)
         \/ startsWith(textNorm, variant \o <<" ">>)
         \/ endsWith(textNorm, <<" ">> \o variant)
         \/ textNorm = variant
        THEN [id |-> makeId(term.text, seg.id, seg.start),
              termId |-> term.id,
              term |-> term.text,
              matchedText |-> seg.text,
              segmentId |-> seg.id,
              timestamp |-> seg.start,
              score |-> ScoreScale,
              matchType |-> "explicit"]
        ELSE NoMention

RECURSIVE explicitFirstVariant_p008(_, _, _)
explicitFirstVariant_p008(term, seg, variants) ==
  IF variants = <<>> THEN <<>>
  ELSE LET m == explicitVariant_p008(term, seg, norm_p008(Head(variants)))
       IN  IF m # NoMention THEN <<m>>
           ELSE explicitFirstVariant_p008(term, seg, Tail(variants))

RECURSIVE explicitOverSegments_p008(_, _)
explicitOverSegments_p008(term, segments) ==
  IF segments = <<>> THEN <<>>
  ELSE explicitFirstVariant_p008(term, Head(segments),
                                 <<term.text>> \o term.aliases)
       \o explicitOverSegments_p008(term, Tail(segments))

RECURSIVE findExplicitMatches_p008(_, _)
findExplicitMatches_p008(terms, segments) ==
  IF terms = <<>> THEN <<>>
  ELSE explicitOverSegments_p008(Head(terms), segments)
       \o findExplicitMatches_p008(Tail(terms), segments)

RECURSIVE corpusOfVariants_p008(_, _)
corpusOfVariants_p008(term, variants) ==
  IF variants = <<>> THEN <<>>
  ELSE <<[term |-> term, variant |-> norm_p008(Head(variants))]>>
       \o corpusOfVariants_p008(term, Tail(variants))

RECURSIVE buildSearchCorpus_p008(_)
buildSearchCorpus_p008(terms) ==
  IF terms = <<>> THEN <<>>
  ELSE (IF Head(terms).isExplicit # "false"
          THEN corpusOfVariants_p008(Head(terms),
                                     <<Head(terms).text>> \o Head(terms).aliases)
          ELSE <<>>)
       \o buildSearchCorpus_p008(Tail(terms))

fuzzyPhrase_p008(searchCorpus, segment, phrase, options) ==
  LET phraseNorm == norm_p008(phrase)
      hits == fuseHits(searchCorpus, phraseNorm, options.threshold)
      k == fuseBest(searchCorpus, phraseNorm, options.threshold)
      match == searchCorpus[k]
      score == fuseScore(phraseNorm, match.variant)
  IN  IF Len(phrase) < 3 THEN NoMention
      ELSE IF hits = {} \/ ~(score < options.threshold) THEN NoMention
      ELSE [id |-> makeId(match.term.text, segment.id, segment.start),
            termId |-> match.term.id,
            term |-> match.term.text,
            matchedText |-> phrase,
            segmentId |-> segment.id,
            timestamp |-> segment.start,
            score |-> ScoreScale - score,
            matchType |-> "fuzzy"]

RECURSIVE fuzzyFirstPhrase_p008(_, _, _, _)
fuzzyFirstPhrase_p008(searchCorpus, segment, phrases, options) ==
  IF phrases = <<>> THEN <<>>
  ELSE LET m == fuzzyPhrase_p008(searchCorpus, segment, Head(phrases), options)
       IN  IF m # NoMention THEN <<m>>
           ELSE fuzzyFirstPhrase_p008(searchCorpus, segment, Tail(phrases), options)

RECURSIVE fuzzyOverWords_p008(_, _, _, _, _)
fuzzyOverWords_p008(searchCorpus, segment, words, i, options) ==
  IF i >= Len(words) THEN <<>>
  ELSE LET phrases == <<words[i + 1],
                        join(slice(words, i, i + 2), <<" ">>),
                        join(slice(words, i, i + 3), <<" ">>)>>
       IN  fuzzyFirstPhrase_p008(searchCorpus, segment, phrases, options)
           \o fuzzyOverWords_p008(searchCorpus, segment, words, i + 1, options)

RECURSIVE fuzzyOverSegments_p008(_, _, _, _)
fuzzyOverSegments_p008(searchCorpus, segments, alreadyMatched, options) ==
  IF segments = <<>> THEN <<>>
  ELSE (IF NumStr(Head(segments).id) \in alreadyMatched THEN <<>>
        ELSE fuzzyOverWords_p008(searchCorpus, Head(segments),
                                 splitWs(Head(segments).text), 0, options))
       \o fuzzyOverSegments_p008(searchCorpus, Tail(segments), alreadyMatched,
                                 options)

findFuzzyMentions_p008(terms, segments, alreadyMatched, options) ==
  fuzzyOverSegments_p008(buildSearchCorpus_p008(terms), segments,
                         alreadyMatched, options)

\* ------------------------------------------------------------- embeddings

\* A number[] the code holds, or the undefined it gets where a vector is missing.
Vec(v) == [def |-> TRUE, vec |-> v]
UndefinedVec == [def |-> FALSE, vec |-> <<>>]

\* embeddingsCache.get(n)
cacheGet(cache, n) == IF n \in DOMAIN cache THEN cache[n] ELSE UndefinedVec

\* Array.from(new Set(normalized)): first occurrences, in order.
RECURSIVE uniqueOf(_)
uniqueOf(xs) ==
  IF xs = <<>> THEN <<>>
  ELSE LET init == uniqueOf(SubSeq(xs, 1, Len(xs) - 1))
       IN  IF xs[Len(xs)] \in Range(init) THEN init
           ELSE Append(init, xs[Len(xs)])

\* batchGetEmbeddings up to its await: the normalized texts and the misses.
batchNormalized(version, texts) ==
  [i \in DOMAIN texts |-> normOf(version, texts[i])]

\* Variant: the misses are taken from the texts as given, repeats included.
batchMissing_repeats(normalized, cache) ==
  SelectSeq(normalized, LAMBDA u : u \notin DOMAIN cache)

batchMissing(normalized, cache) ==
  SelectSeq(uniqueOf(normalized), LAMBDA u : u \notin DOMAIN cache)

\* Variant: every missing key is stored with the first fetched vector.
cacheAfterFetch_firstVector(cache, missing, fetched) ==
  [x \in DOMAIN cache \cup Range(missing) |->
     IF x \in Range(missing)
       THEN (IF fetched = <<>> THEN UndefinedVec ELSE Head(fetched))
       ELSE cache[x]]

\* Variant: the fetched vectors replace the cache instead of joining it.
cacheAfterFetch_replace(cache, missing, fetched) ==
  [x \in Range(missing) |->
     LET i == CHOOSE k \in DOMAIN missing : missing[k] = x
     IN  IF i <= Len(fetched) THEN fetched[i] ELSE UndefinedVec]

\* for (i ...) embeddingsCache.set(missing[i], fetched[i])
RECURSIVE cacheAfterFetch(_, _, _)
cacheAfterFetch(cache, missing, fetched) ==
  IF missing = <<>> THEN cache
  ELSE LET k == Head(missing)
           v == IF fetched = <<>> THEN UndefinedVec ELSE Head(fetched)
           c1 == [x \in DOMAIN cache \cup {k} |-> IF x = k THEN v ELSE cache[x]]
       IN  cacheAfterFetch(c1, Tail(missing),
                           IF fetched = <<>> THEN <<>> ELSE Tail(fetched))

\* Variant: the vectors of the distinct texts are returned.
batchReturn_distinct(normalized, cache) ==
  [i \in DOMAIN uniqueOf(normalized) |-> cacheGet(cache, uniqueOf(normalized)[i])]

\* return normalized.map(n => embeddingsCache.get(n))
batchReturn(normalized, cache) ==
  [i \in DOMAIN normalized |-> cacheGet(cache, normalized[i])]

\* Integer square root of a perfect square (every vector of the model has an
\* integral norm, so the cosine is an exact fraction).
ISqrt(n) == CHOOSE r \in 0..n : r * r = n

NaN == [nan |-> TRUE, num |-> 0, den |-> 1]
Frac(n, d) == [nan |-> FALSE, num |-> n, den |-> d]

RECURSIVE sumTo(_, _)
sumTo(f, n) == IF n = 0 THEN 0 ELSE f[n] + sumTo(f, n - 1)

\* Variant: the dot product is returned without dividing by the norms.
cosineSimilarity_dotOnly(vecA, vecB) ==
  Frac(sumTo([i \in 1..Len(vecA) |->
               IF i <= Len(vecB) THEN vecA[i] * vecB[i] ELSE 0], Len(vecA)), 1)

\* cosineSimilarity: the loop runs over vecA's indices; an index vecB lacks
\* reads undefined and turns dot and nb into NaN.
cosineSimilarity(vecA, vecB) ==
  LET n == Len(vecA)
      short == Len(vecB) < n
      na == sumTo([i \in 1..n |-> vecA[i] * vecA[i]], n)
      nb == sumTo([i \in 1..n |-> vecB[i] * vecB[i]], n)
      dot == sumTo([i \in 1..n |-> vecA[i] * vecB[i]], n)
  IN  IF na = 0 THEN Frac(0, 1)
      ELSE IF short THEN NaN
      ELSE IF nb = 0 THEN Frac(0, 1)
      ELSE Frac(dot, ISqrt(na) * ISqrt(nb))

\* score >= threshold, threshold in units of 1/ScoreScale
scoreAtLeast(score, threshold) ==
  ~score.nan /\ score.num * ScoreScale >= threshold * score.den

\* Number(s.score.toFixed(4))
toFixed4(score) ==
  LET n == score.num * ScoreScale
      d == score.den
  IN  IF n >= 0 THEN (2 * n + d) \div (2 * d)
      ELSE 0 - ((2 * (0 - n) + d) \div (2 * d))

\* Variant: the scores are sorted in ascending order.
RECURSIVE scoreInsert_ascending(_, _)
scoreInsert_ascending(sorted, x) ==
  IF sorted = <<>> THEN <<x>>
  ELSE IF x.score.num * Head(sorted).score.den
            < Head(sorted).score.num * x.score.den
    THEN <<x>> \o sorted
  ELSE <<Head(sorted)>> \o scoreInsert_ascending(Tail(sorted), x)

\* scores.sort((a, b) => b.score - a.score), stable
RECURSIVE scoreInsert(_, _)
scoreInsert(sorted, x) ==
  IF sorted = <<>> THEN <<x>>
  ELSE IF x.score.num * Head(sorted).score.den
            > Head(sorted).score.num * x.score.den
    THEN <<x>> \o sorted
  ELSE <<Head(sorted)>> \o scoreInsert(Tail(sorted), x)

RECURSIVE sortScores(_)
sortScores(xs) ==
  IF xs = <<>> THEN <<>>
  ELSE scoreInsert(sortScores(SubSeq(xs, 1, Len(xs) - 1)), xs[Len(xs)])

\* ------------------------------------------------------------- strategy 3

DEFAULT_IMPLICIT_THRESHOLD == 7500
DEFAULT_TOP_K == 3

\* terms.filter(metonymy / isExplicit === false / geo), all terms when none
implicitTermsOf(terms) ==
  LET picked == SelectSeq(terms, LAMBDA t :
                  t.category = "metonymy" \/ t.isExplicit = "false"
                    \/ t.category = "geo")
  IN  IF picked = <<>> THEN terms ELSE picked

unmatchedSegmentsOf(segments, alreadyMatched) ==
  SelectSeq(segments, LAMBDA sg : NumStr(sg.id) \notin alreadyMatched)

\* Variant: only the segments are tested.
implicitEarlyReturn_segmentsOnly(implicitTerms, unmatchedSegments) ==
  unmatchedSegments = <<>>

\* if (implicitTerms.length === 0 || unmatchedSegments.length === 0) return []
implicitEarlyReturn(implicitTerms, unmatchedSegments) ==
  implicitTerms = <<>> \/ unmatchedSegments = <<>>

textsOf(xs) == [i \in DOMAIN xs |-> xs[i].text]

\* The segments of one term that clear the threshold, in segment order.
RECURSIVE scoresOfTerm(_, _, _, _)
scoresOfTerm(tEmb, segmentEmbeddings, si, threshold) ==
  IF si > Len(segmentEmbeddings) THEN <<>>
  ELSE LET score == cosineSimilarity(tEmb.vec, segmentEmbeddings[si].vec)
       IN  (IF scoreAtLeast(score, threshold)
              THEN <<[segIdx |-> si, score |-> score]>> ELSE <<>>)
           \o scoresOfTerm(tEmb, segmentEmbeddings, si + 1, threshold)

implicitOfTerm(term, unmatchedSegments, tEmb, segmentEmbeddings, threshold, topKPerTerm) ==
  LET scores == sortScores(scoresOfTerm(tEmb, segmentEmbeddings, 1, threshold))
      top == slice(scores, 0, topKPerTerm)
  IN  [k \in DOMAIN top |->
         LET seg == unmatchedSegments[top[k].segIdx]
         IN  [id |-> makeId(term.text, seg.id, seg.start),
              termId |-> term.id,
              term |-> term.text,
              matchedText |-> slice(seg.text, 0, 60) \o <<".",".",".">>,
              segmentId |-> seg.id,
              timestamp |-> seg.start,
              score |-> toFixed4(top[k].score),
              matchType |-> "implicit"]]

\* findImplicitMentions after both batches have resolved.
RECURSIVE implicitLoop(_, _, _, _, _, _, _)
implicitLoop(implicitTerms, unmatchedSegments, termEmbeddings, segmentEmbeddings, ti, threshold, topKPerTerm) ==
  IF ti > Len(implicitTerms) THEN <<>>
  ELSE implicitOfTerm(implicitTerms[ti], unmatchedSegments, termEmbeddings[ti],
                      segmentEmbeddings, threshold, topKPerTerm)
       \o implicitLoop(implicitTerms, unmatchedSegments, termEmbeddings,
                       segmentEmbeddings, ti + 1, threshold, topKPerTerm)

\* ------------------------------------------------------------- inputs

txtRCUH == <<"R","C","U","H">>
txtUniversityOfHawaii == <<"U","n","i","v","e","r","s","i","t","y"," ","o","f"," ","H","a","w","a","i","i">>
txtUH == <<"U","H">>
txtRedHill == <<"R","e","d"," ","H","i","l","l">>
txtFunded == <<"f","u","n","d","e","d"," ","t","h","r","o","u","g","h"," ","R","C","U","H">>
txtUniversityTypo == <<"u","n","i","v","e","r","s","i","t","y"," ","o","f"," ","h","a","w","a","i"," ","u","n","i","v","e","r","s","i","t","y">>
txtFuelTanks == <<"f","u","e","l"," ","t","a","n","k","s"," ","l","e","a","k","e","d">>
txtBudget == <<"b","u","d","g","e","t"," ","h","e","a","r","i","n","g">>

NoAliases == [kind |-> "none", val |-> <<>>]
AliasArray(a) == [kind |-> "array", val |-> a]

\* Raw catalog records as the route receives them.
termRCUH == [id |-> <<"1">>, text |-> txtRCUH, term |-> <<>>,
             aliases |-> NoAliases, category |-> "org", isExplicit |-> "undefined"]
termUH == [id |-> <<"2">>, text |-> txtUniversityOfHawaii, term |-> <<>>,
           aliases |-> AliasArray(<<txtUH>>), category |-> "education",
           isExplicit |-> "undefined"]
termRedHill == [id |-> <<"3">>, text |-> txtRedHill, term |-> <<>>,
                aliases |-> NoAliases, category |-> "metonymy",
                isExplicit |-> "undefined"]

segFunded == [id |-> 1, start |-> 0, text |-> txtFunded]
segTypo == [id |-> 2, start |-> 5, text |-> txtUniversityTypo]
segFuel == [id |-> 3, start |-> 9, text |-> txtFuelTanks]
segBudget == [id |-> 4, start |-> 12, text |-> txtBudget]

TermLists == {<<>>, <<termRCUH>>, <<termRedHill>>,
              <<termRCUH, termUH, termRedHill>>}

SegmentLists == {<<>>, <<segFunded>>, <<segFuel, segBudget>>,
                 <<segFunded, segTypo, segFuel>>}

Opts(e, f, i, s, ft, it) ==
  [useExplicit |-> e, useFuzzy |-> f, useImplicit |-> i, useSemantic |-> s,
   fuzzyThreshold |-> ft, implicitThreshold |-> it, semanticThreshold |-> 0]

\* The options bodies: every combination of the three documented switches,
\* the migration key useSemantic, and implicit thresholds inside and outside
\* the documented range (0 stands for an absent or zero threshold).
OptionsSet ==
  {Opts(e, f, i, FALSE, 3000, 7500) : e \in BOOLEAN, f \in BOOLEAN, i \in BOOLEAN}
    \cup {Opts(TRUE, TRUE, TRUE, FALSE, 3000, it) : it \in {0, 0 - ScoreScale}}
    \cup {Opts(TRUE, TRUE, FALSE, TRUE, 3000, 7500)}

\* The scores fuse.js may give a near match.
FuseLevels == {500, 2500}

\* The embedding provider: one fixed vector per text (text-embedding-3-small
\* is outside the repository; the vectors are chosen with integral norms).
providerVector(text) ==
  CASE text = norm(txtRedHill) -> Vec(<<1, 0>>)
    [] text = norm(txtFuelTanks) -> Vec(<<4, 3>>)
    [] text = norm(txtUniversityTypo) -> Vec(<<3, 4>>)
    [] text = norm(txtBudget) -> Vec(<<0 - 3, 4>>)
    [] OTHER -> Vec(<<0, 1>>)

\* response.data.map(d => d.embedding)
providerResponse(inputs) == [i \in DOMAIN inputs |-> providerVector(inputs[i])]

\* ------------------------------------------------------------- orchestrator

\* s.split(/[,;\s]+/)
RECURSIVE SplitFromBy(_, _, _, _, _)
SplitFromBy(s, seps, i, cur, acc) ==
  IF i > Len(s) THEN Append(acc, cur)
  ELSE IF s[i] \in seps
    THEN IF i < Len(s) /\ s[i + 1] \in seps
           THEN SplitFromBy(s, seps, i + 1, cur, acc)
           ELSE SplitFromBy(s, seps, i + 1, <<>>, Append(acc, cur))
    ELSE SplitFromBy(s, seps, i + 1, Append(cur, s[i]), acc)

\* Array.isArray(t.aliases) ? t.aliases
\*   : typeof t.aliases === 'string' ? split, trim, filter(Boolean)
\*   : t.aliases ? [String(t.aliases)] : []
normalizedAliases(aliases) ==
  CASE aliases.kind = "array" -> aliases.val
    [] aliases.kind = "string" ->
         LET parts == SplitFromBy(aliases.val, {",", ";", " ", "\n", "\t"},
                                  1, <<>>, <<>>)
         IN  filterBoolean([i \in DOMAIN parts |-> trim(parts[i])])
    [] aliases.kind = "none" -> <<>>
    [] OTHER -> <<aliases.val>>

\* One element of normalizedTerms; the empty string stands for an absent field.
normalizedTerm(t) ==
  [id |-> IF t.id # <<>> THEN t.id ELSE IF t.term # <<>> THEN t.term ELSE t.text,
   text |-> IF t.text # <<>> THEN t.text ELSE t.term,
   aliases |-> normalizedAliases(t.aliases),
   category |-> t.category,
   isExplicit |-> t.isExplicit]

normalizedTerms(terms) == [i \in DOMAIN terms |-> normalizedTerm(terms[i])]

\* part_008 reads the records it is given as Term: term.aliases || [], and a
\* string spreads into its characters.
asTerm_p008(t) ==
  [id |-> t.id,
   text |-> t.text,
   aliases |-> IF t.aliases.kind = "array" THEN t.aliases.val
               ELSE IF t.aliases.kind = "string"
                 THEN [i \in DOMAIN t.aliases.val |-> <<t.aliases.val[i]>>]
               ELSE <<>>,
   category |-> t.category,
   isExplicit |-> t.isExplicit]

asTerms_p008(terms) == [i \in DOMAIN terms |-> asTerm_p008(terms[i])]

DEFAULT_FUZZY_THRESHOLD == 2000

\* Variant: the claims are kept in one set shared by the calls in flight.
claimedBy_shared(mentions) ==
  {NumStr(mentions[i].segmentId) : i \in DOMAIN mentions}
    \cup {NumStr(call.explicit[i].segmentId) : i \in DOMAIN call.explicit}
    \cup {NumStr(call.fuzzy[i].segmentId) : i \in DOMAIN call.fuzzy}
    \cup {NumStr(call2.explicit[i].segmentId) : i \in DOMAIN call2.explicit}
    \cup {NumStr(call2.fuzzy[i].segmentId) : i \in DOMAIN call2.fuzzy}

\* Variant: the stage's mentions are not recorded as claims.
claimedBy_none(mentions) == {}

\* explicit.forEach(m => matchedSegmentIds.add(`${m.segmentId}`))
claimedBy(mentions) == {NumStr(mentions[i].segmentId) : i \in DOMAIN mentions}

NoBatch == [state |-> "none", normalized |-> <<>>, missing |-> <<>>, value |-> <<>>]

IdleCall ==
  [pc |-> "idle", version |-> "none", terms |-> <<>>, segments |-> <<>>,
   options |-> Opts(FALSE, FALSE, FALSE, FALSE, 0, 0),
   explicit |-> <<>>, fuzzy |-> <<>>, implicit |-> <<>>,
   implicitTerms |-> <<>>, unmatchedSegments |-> <<>>, threshold |-> 0,
   topKPerTerm |-> 0,
   termBatch |-> NoBatch, segmentBatch |-> NoBatch,
   sent |-> <<>>, result |-> <<>>]

\* batchGetEmbeddings(texts) up to its first await: with no miss it returns at
\* once, otherwise getEmbeddings(missing) is in flight.
batchStart(version, texts, cache) ==
  LET normalized == batchNormalized(version, texts)
      missing == batchMissing(normalized, cache)
  IN  IF missing = <<>>
        THEN [state |-> "resolved", normalized |-> normalized,
              missing |-> missing, value |-> batchReturn(normalized, cache)]
        ELSE [state |-> "pending", normalized |-> normalized,
              missing |-> missing, value |-> <<>>]

sentBy(batch) == IF batch.state = "pending" THEN <<batch.missing>> ELSE <<>>

\* findImplicitMentions from the resolution of Promise.all to its return, and
\* the rest of findMentions: push, deduplicate, return.
completeCall(c, termBatch, segmentBatch) ==
  LET implicit == implicitLoop(c.implicitTerms, c.unmatchedSegments,
                               termBatch.value, segmentBatch.value, 1,
                               c.threshold, DEFAULT_TOP_K)
  IN  [c EXCEPT !.pc = "returned",
                !.termBatch = termBatch,
                !.segmentBatch = segmentBatch,
                !.implicit = implicit,
                !.result = deduplicateMentions(c.explicit \o c.fuzzy \o implicit)]

\* findMentions of part_008 from its entry to its first suspension or return.
findMentions_p008(rawTerms, segments, options, cache) ==
  LET terms == asTerms_p008(rawTerms)
      explicit == IF options.useExplicit
                    THEN findExplicitMatches_p008(terms, segments) ELSE <<>>
      fuzzy == IF options.useFuzzy
                 THEN findFuzzyMentions_p008(terms, segments, claimedBy(explicit),
                        [threshold |-> options.fuzzyThreshold,
                         minMatchCharLength |-> 3])
                 ELSE <<>>
      matchedSegmentIds == claimedBy(explicit) \cup claimedBy(fuzzy)
      \* implicitThreshold || semanticThreshold || 0.75
      threshold == IF options.implicitThreshold # 0 THEN options.implicitThreshold
                   ELSE IF options.semanticThreshold # 0
                     THEN options.semanticThreshold
                   ELSE DEFAULT_IMPLICIT_THRESHOLD
      implicitTerms == implicitTermsOf(terms)
      unmatchedSegments == unmatchedSegmentsOf(segments, matchedSegmentIds)
      termBatch == batchStart("p008", textsOf(implicitTerms), cache)
      segmentBatch == batchStart("p008", textsOf(unmatchedSegments), cache)
      c == [IdleCall EXCEPT !.version = "p008", !.terms = rawTerms,
                            !.segments = segments, !.options = options,
                            !.explicit = explicit, !.fuzzy = fuzzy]
  IN  IF ~(options.useImplicit \/ options.useSemantic)
           \/ implicitEarlyReturn(implicitTerms, unmatchedSegments)
        THEN [c EXCEPT !.pc = "returned",
                       !.result = deduplicateMentions(explicit \o fuzzy)]
        ELSE LET c2 == [c EXCEPT !.implicitTerms = implicitTerms,
                                 !.unmatchedSegments = unmatchedSegments,
                                 !.threshold = threshold,
                                 !.sent = sentBy(termBatch) \o sentBy(segmentBatch)]
             IN  IF termBatch.state = "resolved" /\ segmentBatch.state = "resolved"
                   THEN completeCall(c2, termBatch, segmentBatch)
                   ELSE [c2 EXCEPT !.pc = "awaiting",
                                   !.termBatch = termBatch,
                                   !.segmentBatch = segmentBatch]

\* findMentions of transcriptMentions.ts: the third argument the route passes
\* is not a parameter, the implicit stage is commented out, nothing suspends.
findMentions(rawTerms, segments, options) ==
  LET terms == normalizedTerms(rawTerms)
      explicit == findExplicitMatches(terms, segments)
      fuzzy == findFuzzyMentions(terms, segments, claimedBy(explicit),
                 [threshold |-> DEFAULT_FUZZY_THRESHOLD, minMatchCharLength |-> 5])
      c == [IdleCall EXCEPT !.version = "head", !.terms = rawTerms,
                            !.segments = segments, !.options = options]
  IN  IF corpusThrows(terms) \/ splitThrows(segments, claimedBy(explicit))
        THEN [c EXCEPT !.pc = "rejected", !.explicit = explicit]
        ELSE [c EXCEPT !.pc = "returned", !.explicit = explicit, !.fuzzy = fuzzy,
                       !.result = deduplicateMentions(explicit \o fuzzy)]

\* ------------------------------------------- explicit matching of part_014

\* /^[A-Z]{2,}$/.test(text.trim())
isAcronym_p014(text) ==
  LET t == trim(text)
  IN  Len(t) >= 2 /\ \A i \in DOMAIN t : IsUpper(t[i])

\* [A-Za-z0-9]
IsAlnum(c) == IsUpper(c) \/ IsLower(c) \/ IsDigit(c)

\* (?<![A-Za-z0-9])variant(?![A-Za-z0-9]) at position i (1-based) of the raw
\* segment text, case-sensitive for an acronym ('g'), otherwise not ('gi').
patternMatchesAt_p014(searchText, variantTrimmed, i, isAcro) ==
  LET hay == IF isAcro THEN searchText ELSE toLowerCase(searchText)
      needle == IF isAcro THEN variantTrimmed ELSE toLowerCase(variantTrimmed)
  IN  /\ IsSubstringAt(hay, needle, i)
      /\ (i = 1 \/ ~IsAlnum(searchText[i - 1]))
      /\ (i + Len(needle) > Len(searchText)
            \/ ~IsAlnum(searchText[i + Len(needle)]))

\* hasContextualSupport, matchIndex 0-based
hasContextualSupport(term, segment, matchIndex) ==
  LET lowerText == toLowerCase(term.text)
      generic == endsWith(lowerText, w_university)
                   \/ endsWith(lowerText, <<"c","o","l","l","e","g","e">>)
      start == IF matchIndex - 50 < 0 THEN 0 ELSE matchIndex - 50
      context == toLowerCase(slice(segment.text, start,
                                   matchIndex + Len(term.text) + 50))
  IN  IF term.category # "education" \/ ~generic THEN TRUE
      ELSE \/ includes(context, w_hawaii) \/ includes(context, w_manoa)
           \/ includes(context, <<"u","h">>)
           \/ includes(context, <<"o","a","h","u">>)

\* while ((match = pattern.exec(searchText)) !== null): one mention for each
\* occurrence from lastIndex on that has contextual support.
RECURSIVE execLoop_p014(_, _, _, _, _)
execLoop_p014(term, seg, variantTrimmed, isAcro, lastIndex) ==
  LET hits == {i \in (lastIndex + 1)..(Len(seg.text) + 1) :
                 patternMatchesAt_p014(seg.text, variantTrimmed, i, isAcro)}
      at == CHOOSE i \in hits : \A j \in hits : i <= j
      matchIndex == at - 1
      mention == [id |-> makeId(term.text, seg.id, seg.start),
                  termId |-> IF term.id = <<>> THEN term.text ELSE term.id,
                  term |-> term.text,
                  matchedText |-> slice(seg.text, matchIndex,
                                        matchIndex + Len(variantTrimmed)),
                  segmentId |-> seg.id,
                  timestamp |-> seg.start,
                  score |-> ScoreScale,
                  matchType |-> "explicit"]
  IN  IF hits = {} THEN <<>>
      ELSE (IF hasContextualSupport(term, seg, matchIndex)
              THEN <<mention>> ELSE <<>>)
           \o execLoop_p014(term, seg, variantTrimmed, isAcro,
                            matchIndex + Len(variantTrimmed))

\* for (const seg of segments)
RECURSIVE variantOverSegments_p014(_, _, _)
variantOverSegments_p014(term, variantTrimmed, segments) ==
  IF segments = <<>> THEN <<>>
  ELSE execLoop_p014(term, Head(segments), variantTrimmed,
                     isAcronym_p014(variantTrimmed), 0)
       \o variantOverSegments_p014(term, variantTrimmed, Tail(segments))

\* for (const variant of variants)
RECURSIVE explicitOverVariants_p014(_, _, _)
explicitOverVariants_p014(term, variants, segments) ==
  IF variants = <<>> THEN <<>>
  ELSE (IF trim(Head(variants)) = <<>> THEN <<>>
        ELSE variantOverSegments_p014(term, trim(Head(variants)), segments))
       \o explicitOverVariants_p014(term, Tail(variants), segments)

RECURSIVE findExplicitMatches_p014(_, _)
findExplicitMatches_p014(terms, segments) ==
  IF terms = <<>> THEN <<>>
  ELSE explicitOverVariants_p014(Head(terms),
         filterBoolean(<<Head(terms).text>> \o Head(terms).aliases), segments)
       \o findExplicitMatches_p014(Tail(terms), segments)

\* ------------------------------------------- embeddings.ts (part_015)

DEFAULT_TOP_K_p015 == 5

\* The Mention of embeddings.ts has neither matchedText nor matchType.
asMention_p015(m) ==
  [id |-> m.id, termId |-> m.termId, term |-> m.term,
   segmentId |-> m.segmentId, timestamp |-> m.timestamp, score |-> m.score]

\* if (!existing || m.score > existing.score) map.set(key, m)
dedupStep_p015(map, m) ==
  IF \A i \in DOMAIN map : mentionKey(map[i]) # mentionKey(m)
    THEN Append(map, m)
    ELSE LET i == CHOOSE k \in DOMAIN map : mentionKey(map[k]) = mentionKey(m)
         IN  IF m.score > map[i].score THEN [map EXCEPT ![i] = m] ELSE map

RECURSIVE dedupLoop_p015(_, _)
dedupLoop_p015(map, mentions) ==
  IF mentions = <<>> THEN map
  ELSE dedupLoop_p015(dedupStep_p015(map, Head(mentions)), Tail(mentions))

\* .sort((a, b) => b.score - a.score), stable
RECURSIVE sortInsert_p015(_, _)
sortInsert_p015(sorted, x) ==
  IF sorted = <<>> THEN <<x>>
  ELSE IF x.score > Head(sorted).score THEN <<x>> \o sorted
  ELSE <<Head(sorted)>> \o sortInsert_p015(Tail(sorted), x)

RECURSIVE sortByScore_p015(_)
sortByScore_p015(ms) ==
  IF ms = <<>> THEN <<>>
  ELSE sortInsert_p015(sortByScore_p015(SubSeq(ms, 1, Len(ms) - 1)), ms[Len(ms)])

\* getEmbeddings(texts), called directly: no cache, every text is sent.
requestStart_p015(texts) ==
  [state |-> "pending", normalized |-> texts, missing |-> texts, value |-> <<>>]

\* findMentions of embeddings.ts from the resolution of Promise.all on: the
\* loops are those of findImplicitMentions, the mentions lose two fields.
complete_p015(c, termBatch, segmentBatch) ==
  LET found == implicitLoop(c.implicitTerms, c.unmatchedSegments,
                            termBatch.value, segmentBatch.value, 1,
                            c.threshold, c.topKPerTerm)
      mentions == [i \in DOMAIN found |-> asMention_p015(found[i])]
  IN  [c EXCEPT !.pc = "returned",
                !.termBatch = termBatch,
                !.segmentBatch = segmentBatch,
                !.implicit = mentions,
                !.result = sortByScore_p015(dedupLoop_p015(<<>>, mentions))]

\* findMentions of embeddings.ts from its entry to its await or return.
findMentions_p015(terms, segments, threshold, topKPerTerm) ==
  LET c == [IdleCall EXCEPT !.version = "p015", !.terms = terms,
                            !.segments = segments, !.threshold = threshold,
                            !.topKPerTerm = topKPerTerm]
      termBatch == requestStart_p015(textsOf(terms))
      segmentBatch == requestStart_p015(textsOf(segments))
  IN  IF terms = <<>> \/ segments = <<>>
        THEN [c EXCEPT !.pc = "returned"]
        ELSE [c EXCEPT !.pc = "awaiting",
                       !.implicitTerms = terms,
                       !.unmatchedSegments = segments,
                       !.termBatch = termBatch,
                       !.segmentBatch = segmentBatch,
                       !.sent = <<termBatch.missing, segmentBatch.missing>>]

\* ------------------------------------------------------------- actions

\* router.post('/extract'): findMentions(terms, segments, options || {}),
\* resolved by the import to either iteration of the service.
Extract ==
  /\ call.pc = "idle"
  /\ \E rawTerms \in TermLists, segments \in SegmentLists, options \in OptionsSet :
       call' = findMentions(rawTerms, segments, options)
  /\ UNCHANGED <<fuseNear, embeddingsCache, dIn, dOut, batchCall, call2, app>>

Extract_p008 ==
  /\ call.pc = "idle"
  /\ \E rawTerms \in TermLists, segments \in SegmentLists, options \in OptionsSet :
       call' = findMentions_p008(rawTerms, segments, options, embeddingsCache)
  /\ UNCHANGED <<fuseNear, embeddingsCache, dIn, dOut, batchCall, call2, app>>

batchOf(c, which) == IF which = "term" THEN c.termBatch ELSE c.segmentBatch

\* Variant: the similarities are computed as soon as one batch has resolved.
resolveStep_eager(c, which, cache) ==
  LET b == batchOf(c, which)
      otherBatch == batchOf(c, IF which = "term" THEN "segment" ELSE "term")
      cache1 == cacheAfterFetch(cache, b.missing, providerResponse(b.missing))
      b1 == [b EXCEPT !.state = "resolved",
                      !.value = batchReturn(b.normalized, cache1)]
      tb == IF which = "term" THEN b1 ELSE otherBatch
      sb == IF which = "term" THEN otherBatch ELSE b1
  IN  [cache |-> cache1,
       call |-> IF c.pc = "awaiting" THEN completeCall(c, tb, sb)
                ELSE [c EXCEPT !.termBatch = tb, !.segmentBatch = sb]]

\* getEmbeddings(missing) resolves for one batch of the call c: the cache is
\* filled, the batch returns, and once both batches have, findImplicitMentions
\* and findMentions finish.  The call and the cache afterwards.
resolveStep(c, which, cache) ==
  LET b == batchOf(c, which)
      otherBatch == batchOf(c, IF which = "term" THEN "segment" ELSE "term")
      direct == c.version = "p015"
      cache1 == IF direct THEN cache
                ELSE cacheAfterFetch(cache, b.missing, providerResponse(b.missing))
      b1 == [b EXCEPT !.state = "resolved",
                      !.value = IF direct THEN providerResponse(b.missing)
                                ELSE batchReturn(b.normalized, cache1)]
      tb == IF which = "term" THEN b1 ELSE otherBatch
      sb == IF which = "term" THEN otherBatch ELSE b1
  IN  [cache |-> cache1,
       call |-> IF c.pc = "awaiting" /\ otherBatch.state = "resolved"
                  THEN (IF direct THEN complete_p015(c, tb, sb)
                        ELSE completeCall(c, tb, sb))
                  ELSE [c EXCEPT !.termBatch = tb, !.segmentBatch = sb]]

\* getEmbeddings(missing) rejects (network, quota, key): nothing catches it,
\* so batchGetEmbeddings, Promise.all, findImplicitMentions and findMentions
\* reject in turn; the other batch stays in flight.
rejectStep(c, which) ==
  IF which = "term"
    THEN [c EXCEPT !.pc = "rejected", !.termBatch.state = "rejected"]
    ELSE [c EXCEPT !.pc = "rejected", !.segmentBatch.state = "rejected"]

ProviderResolve(which) ==
  /\ batchOf(call, which).state = "pending"
  /\ embeddingsCache' = resolveStep(call, which, embeddingsCache).cache
  /\ call' = resolveStep(call, which, embeddingsCache).call
  /\ UNCHANGED <<fuseNear, dIn, dOut, batchCall, call2, app>>

ProviderReject(which) ==
  /\ batchOf(call, which).state = "pending"
  /\ call' = rejectStep(call, which)
  /\ UNCHANGED <<fuseNear, embeddingsCache, dIn, dOut, batchCall, call2, app>>

\* The route has answered (200 with the mentions, or 500): the next request.
Respond ==
  /\ call.pc \in {"returned", "rejected"}
  /\ call.termBatch.state # "pending"
  /\ call.segmentBatch.state # "pending"
  /\ call' = IdleCall
  /\ UNCHANGED <<fuseNear, embeddingsCache, dIn, dOut, batchCall, call2, app>>

\* ------------------------------------------- records with missing fields

termNoText == [id |-> <<"6">>, text |-> <<>>, term |-> <<>>,
               aliases |-> AliasArray(<<txtRCUH>>), category |-> "org",
               isExplicit |-> "undefined"]
termBlankText == [id |-> <<"7">>, text |-> <<" ", " ">>, term |-> <<>>,
                  aliases |-> AliasArray(<<txtRCUH>>), category |-> "org",
                  isExplicit |-> "undefined"]
termNumberAlias == [id |-> <<"8">>, text |-> txtRedHill, term |-> <<>>,
                    aliases |-> [kind |-> "number", val |-> <<"4", "2">>],
                    category |-> "metonymy", isExplicit |-> "undefined"]
termMarkOnly == [id |-> <<"9">>, text |-> <<CombiningMacron>>, term |-> <<>>,
                 aliases |-> NoAliases, category |-> "org",
                 isExplicit |-> "undefined"]
segNoText == [id |-> 9, start |-> 35, text |-> Undefined]

MalformedTermLists ==
  {<<>>, <<termNoText>>, <<termBlankText>>, <<termNumberAlias>>,
   <<termRCUH, termNoText>>, <<termMarkOnly>>}

MalformedSegmentLists == {<<>>, <<segFunded>>, <<segNoText>>, <<segFunded, segNoText>>}

\* POST /extract with arrays whose records lack fields.
ExtractMalformed ==
  /\ call.pc = "idle"
  /\ \E rawTerms \in MalformedTermLists, segments \in MalformedSegmentLists,
        options \in OptionsSet :
       call' = findMentions(rawTerms, segments, options)
  /\ UNCHANGED <<fuseNear, embeddingsCache, dIn, dOut, batchCall, call2, app>>

NextMalformed == ExtractMalformed \/ Respond

\* ------------------------------------------- the ids of one output

txtRedUnderscoreHill == <<"R","e","d","_","H","i","l","l">>
txtLongA == <<"j","o","i","n","t"," ","p","a","n","e","l"," ","o","n"," ","r","e","n","e","w","a","b","l","e"," ","e","n","e","r","g","y"," ","a","n","d"," ","w","a","t","e","a">>
txtLongB == <<"j","o","i","n","t"," ","p","a","n","e","l"," ","o","n"," ","r","e","n","e","w","a","b","l","e"," ","e","n","e","r","g","y"," ","a","n","d"," ","w","a","t","e","b">>
txtRedBoth == <<"r","e","d"," ","h","i","l","l",","," ","r","e","d","_","h","i","l","l">>
txtRedOnly == <<"R","C","U","H"," ","a","t"," ","r","e","d"," ","h","i","l","l">>
termRedUnderscoreHill == [termRedHill EXCEPT !.id = <<"1","0">>, !.text = txtRedUnderscoreHill]
termLongA == [termRCUH EXCEPT !.id = <<"1","1">>, !.text = txtLongA]
termLongB == [termRCUH EXCEPT !.id = <<"1","2">>, !.text = txtLongB]
segRedBoth == [id |-> 10, start |-> 40, text |-> txtRedBoth]
segRedOnly == [id |-> 11, start |-> 40, text |-> txtRedOnly]
segLong == [id |-> 12, start |-> 50, text |-> txtLongA \o <<",", " ">> \o txtLongB]

IdTerms == {termRedHill, termRedUnderscoreHill, termLongA, termLongB, termRCUH}

\* Catalogs of one or two distinct terms.
IdTermLists ==
  {<<t>> : t \in IdTerms}
    \cup {ts \in {<<t, u>> : t \in IdTerms, u \in IdTerms} : ts[1] # ts[2]}

IdSegmentLists ==
  {<<segRedBoth>>, <<segLong>>, <<segRedBoth, segRedOnly>>, <<segFunded, segLong>>,
   <<segRedOnly, segLong, segRedBoth>>}

\* One run of findMentions (transcriptMentions.ts, which never suspends) from
\* call to returned list.
ApplyFindMentions ==
  /\ app.fn = "none"
  /\ \E rawTerms \in IdTermLists, segments \in IdSegmentLists :
       app' = [fn |-> "findMentions",
               args |-> [terms |-> rawTerms, segments |-> segments],
               out |-> findMentions(rawTerms, segments,
                                    Opts(TRUE, TRUE, FALSE, FALSE, 0, 0)).result]
  /\ UNCHANGED <<fuseNear, embeddingsCache, call, dIn, dOut, batchCall, call2>>

\* ------------------------------------------- two calls in flight

ConcTermLists == {<<termRCUH>>}

ConcSegmentLists == {<<segFunded, segTypo, segFuel>>, <<segFuel, segBudget>>}

ConcOptions ==
  {Opts(TRUE, TRUE, TRUE, FALSE, 3000, 7500),
   Opts(FALSE, FALSE, TRUE, FALSE, 3000, 7500)}

\* A second request reaches the route while the first awaits its embeddings.
Extract2 ==
  /\ call2.pc = "idle"
  /\ \E rawTerms \in ConcTermLists, segments \in ConcSegmentLists,
        options \in ConcOptions :
       call2' = findMentions_p008(rawTerms, segments, options, embeddingsCache)
  /\ UNCHANGED <<fuseNear, embeddingsCache, call, dIn, dOut, batchCall, app>>

Extract1 ==
  /\ call.pc = "idle"
  /\ \E rawTerms \in ConcTermLists, segments \in ConcSegmentLists,
        options \in ConcOptions :
       call' = findMentions_p008(rawTerms, segments, options, embeddingsCache)
  /\ UNCHANGED <<fuseNear, embeddingsCache, call2, dIn, dOut, batchCall, app>>

ProviderResolve2(which) ==
  /\ batchOf(call2, which).state = "pending"
  /\ embeddingsCache' = resolveStep(call2, which, embeddingsCache).cache
  /\ call2' = resolveStep(call2, which, embeddingsCache).call
  /\ UNCHANGED <<fuseNear, call, dIn, dOut, batchCall, app>>

ProviderReject2(which) ==
  /\ batchOf(call2, which).state = "pending"
  /\ call2' = rejectStep(call2, which)
  /\ UNCHANGED <<fuseNear, embeddingsCache, call, dIn, dOut, batchCall, app>>

Respond2 ==
  /\ call2.pc \in {"returned", "rejected"}
  /\ call2.termBatch.state # "pending"
  /\ call2.segmentBatch.state # "pending"
  /\ call2' = IdleCall
  /\ UNCHANGED <<fuseNear, embeddingsCache, call, dIn, dOut, batchCall, app>>

NextConc ==
  \/ Extract1
  \/ Extract2
  \/ \E which \in {"term", "segment"} : ProviderResolve(which)
  \/ \E which \in {"term", "segment"} : ProviderResolve2(which)
  \/ \E which \in {"term", "segment"} : ProviderReject(which)
  \/ \E which \in {"term", "segment"} : ProviderReject2(which)
  \/ Respond
  \/ Respond2

\* ------------------------------------------- the two embedding services

EmbTermLists == {<<>>, <<termRedHill>>, <<termRedHill, termRCUH>>}

EmbSegmentLists == {<<>>, <<segFuel, segBudget>>, <<segFunded, segTypo, segFuel>>}

\* findMentions(terms, segments, threshold, topKPerTerm) of embeddings.ts
Extract_p015 ==
  /\ call.pc = "idle"
  /\ \E terms \in EmbTermLists, segments \in EmbSegmentLists,
        threshold \in {0, DEFAULT_IMPLICIT_THRESHOLD},
        topKPerTerm \in {1, DEFAULT_TOP_K_p015} :
       call' = findMentions_p015(terms, segments, threshold, topKPerTerm)
  /\ UNCHANGED <<fuseNear, embeddingsCache, dIn, dOut, batchCall, call2, app>>

NextEmb ==
  \/ Extract1
  \/ Extract_p015
  \/ \E which \in {"term", "segment"} : ProviderResolve(which)
  \/ \E which \in {"term", "segment"} : ProviderReject(which)
  \/ Respond

\* ------------------------------------------- cosineSimilarity on its own

CosineVectors ==
  {<<>>, <<0>>, <<2>>, <<0, 0>>, <<1, 0>>, <<0 - 1, 0>>, <<0, 1>>, <<4, 3>>,
   <<3, 4>>, <<0 - 3, 4>>, <<0, 0, 0>>, <<3, 0, 4>>}

ApplyCosine ==
  /\ app.fn = "none"
  /\ \E vecA \in CosineVectors, vecB \in CosineVectors :
       app' = [fn |-> "cosineSimilarity", args |-> <<vecA, vecB>>,
               out |-> cosineSimilarity(vecA, vecB)]
  /\ UNCHANGED <<fuseNear, embeddingsCache, call, dIn, dOut, batchCall, call2>>

\* ------------------------------------------- the similarity loops on their own

MaxTopK == 3

TopKTermLists == {<<termRedHill>>, <<termRedHill, termRCUH>>}
TopKSegments == <<segFunded, segTypo, segFuel, segBudget>>
TopKVectors == {<<1, 0>>, <<4, 3>>, <<3, 4>>, <<0 - 3, 4>>, <<0, 0>>}
TopKThresholds == {0 - ScoreScale, 0, DEFAULT_IMPLICIT_THRESHOLD}

\* The loops of findImplicitMentions (and of embeddings.ts's findMentions) on
\* resolved embeddings: any vector for each segment, the provider's for the terms.
ApplyImplicit ==
  /\ app.fn = "none"
  /\ \E rawTerms \in TopKTermLists, threshold \in TopKThresholds,
        topKPerTerm \in 0..MaxTopK,
        vs \in [DOMAIN TopKSegments -> TopKVectors] :
       LET terms == asTerms_p008(rawTerms)
           termEmbeddings == providerResponse(textsOf(terms))
           segmentEmbeddings == [i \in DOMAIN TopKSegments |-> Vec(vs[i])]
       IN  app' = [fn |-> "findImplicitMentions",
                   args |-> [terms |-> terms,
                             termEmbeddings |-> termEmbeddings,
                             segmentEmbeddings |-> segmentEmbeddings,
                             threshold |-> threshold,
                             topKPerTerm |-> topKPerTerm],
                   out |-> implicitLoop(terms, TopKSegments, termEmbeddings,
                                        segmentEmbeddings, 1, threshold,
                                        topKPerTerm)]
  /\ UNCHANGED <<fuseNear, embeddingsCache, call, dIn, dOut, batchCall, call2>>

\* ------------------------------------------- findExplicitMatches on its own

MaxSegments == 2

txtRepeat == <<"R","C","U","H",","," ","R","C","U","H">>
txtBothVariants == <<"U","H"," ","U","n","i","v","e","r","s","i","t","y"," ","o","f"," ","H","a","w","a","i","i">>
segRepeat == [id |-> 5, start |-> 15, text |-> txtRepeat]
segBothVariants == [id |-> 6, start |-> 20, text |-> txtBothVariants]
txtIrregular == <<"u","n","i","v","e","r","s","i","t","y"," "," ","o","f","\n","h","a","w","a","i","i">>
segIrregular == [id |-> 7, start |-> 25, text |-> txtIrregular]
txtBoard == <<"B","o","a","r","d">>
txtCollege == <<"C","o","l","l","e","g","e">>
txtCollegeBoard == <<"t","h","e"," ","c","o","l","l","e","g","e"," ","b","o","a","r","d"," ","m","e","t">>
termBoard == [id |-> <<"4">>, text |-> txtBoard, term |-> <<>>,
              aliases |-> NoAliases, category |-> "education",
              isExplicit |-> "undefined"]
termCollege == [id |-> <<"5">>, text |-> txtCollege, term |-> <<>>,
                aliases |-> NoAliases, category |-> "education",
                isExplicit |-> "undefined"]
segCollegeBoard == [id |-> 8, start |-> 30, text |-> txtCollegeBoard]

ExplicitTermLists ==
  {<<termRCUH>>, <<termUH>>, <<termRedHill>>, <<termRCUH, termUH>>, <<termBoard>>,
   <<termCollege>>}
ExplicitSegments ==
  {segFunded, segTypo, segFuel, segBudget, segRepeat, segBothVariants,
   segIrregular, segCollegeBoard}

\* Lists of segments of a transcript: distinct segments, distinct ids.
ExplicitSegmentLists ==
  {ss \in UNION {[1..n -> ExplicitSegments] : n \in 1..MaxSegments} :
     \A i, j \in DOMAIN ss : i # j => ss[i].id # ss[j].id}

\* findExplicitMatches of either file, called as its findMentions calls it.
ApplyExplicit ==
  /\ app.fn = "none"
  /\ \E rawTerms \in ExplicitTermLists, segments \in ExplicitSegmentLists,
        version \in {"head", "p014"} :
       app' = [fn |-> "findExplicitMatches",
               args |-> [version |-> version, terms |-> rawTerms,
                         segments |-> segments],
               out |-> IF version = "head"
                         THEN findExplicitMatches(normalizedTerms(rawTerms), segments)
                         ELSE findExplicitMatches_p014(asTerms_p008(rawTerms), segments)]
  /\ UNCHANGED <<fuseNear, embeddingsCache, call, dIn, dOut, batchCall, call2>>

\* ------------------------------------------- batchGetEmbeddings on its own

MaxTexts == 3

txtRedHillLower == <<"r","e","d"," ","h","i","l","l"," ">>

BatchTexts == {txtRedHill, txtRedHillLower, txtFuelTanks, txtBudget}

BatchInputs == UNION {[1..n -> BatchTexts] : n \in 0..MaxTexts}

IdleBatch ==
  [pc |-> "idle", texts |-> <<>>, b |-> NoBatch, startCache |-> <<>>,
   sent |-> <<>>]

NoApp == [fn |-> "none", args |-> <<>>, out |-> <<>>]

\* batchGetEmbeddings(texts) from its entry to its await or, with no miss,
\* to its return.
BatchCall ==
  /\ batchCall.pc = "idle"
  /\ \E texts \in BatchInputs :
       LET b == batchStart("head", texts, embeddingsCache)
       IN  batchCall' =
             [pc |-> IF b.state = "resolved" THEN "returned" ELSE "awaiting",
              texts |-> texts, b |-> b, startCache |-> embeddingsCache,
              sent |-> sentBy(b)]
  /\ UNCHANGED <<fuseNear, embeddingsCache, call, dIn, dOut, call2, app>>

\* getEmbeddings(missing) resolves: the loop fills the cache, the map returns.
BatchResolve ==
  LET cache1 == cacheAfterFetch(embeddingsCache, batchCall.b.missing,
                                providerResponse(batchCall.b.missing))
  IN  /\ batchCall.pc = "awaiting"
      /\ embeddingsCache' = cache1
      /\ batchCall' = [batchCall EXCEPT !.pc = "returned", !.b.state = "resolved",
                         !.b.value = batchReturn(batchCall.b.normalized, cache1)]
      /\ UNCHANGED <<fuseNear, call, dIn, dOut, call2, app>>

\* getEmbeddings(missing) rejects and so does batchGetEmbeddings.
BatchReject ==
  /\ batchCall.pc = "awaiting"
  /\ batchCall' = [batchCall EXCEPT !.pc = "rejected", !.b.state = "rejected"]
  /\ UNCHANGED <<fuseNear, embeddingsCache, call, dIn, dOut, call2, app>>

\* The caller has its answer; the cache stays as it is for the next call.
BatchDone ==
  /\ batchCall.pc \in {"returned", "rejected"}
  /\ batchCall' = IdleBatch
  /\ UNCHANGED <<fuseNear, embeddingsCache, call, dIn, dOut, call2, app>>

NextBatch == BatchCall \/ BatchResolve \/ BatchReject \/ BatchDone

\* getEmbeddings(missing) resolves with fewer vectors than texts (a response
\* whose data array is short): fetched[i] is undefined from some i on.
BatchResolveShort ==
  /\ batchCall.pc = "awaiting"
  /\ \E n \in 0..(Len(batchCall.b.missing) - 1) :
       LET fetched == SubSeq(providerResponse(batchCall.b.missing), 1, n)
           cache1 == cacheAfterFetch(embeddingsCache, batchCall.b.missing, fetched)
       IN  /\ embeddingsCache' = cache1
           /\ batchCall' = [batchCall EXCEPT !.pc = "returned",
                              !.b.state = "resolved",
                              !.b.value = batchReturn(batchCall.b.normalized, cache1)]
  /\ UNCHANGED <<fuseNear, call, dIn, dOut, call2, app>>

NextShort == BatchCall \/ BatchResolve \/ BatchResolveShort \/ BatchReject \/ BatchDone

\* ------------------------------------------- deduplicateMentions on its own

MaxMentions == 3

poolMention(term, segmentId, matchType, score) ==
  [id |-> makeId(term, segmentId, 0), termId |-> <<>>, term |-> term,
   matchedText |-> term, segmentId |-> segmentId, timestamp |-> 0,
   score |-> score, matchType |-> matchType]

MentionPool ==
  {poolMention(k[1], k[2], ty, sc) :
     k \in {<<txtRCUH, 1>>, <<txtRCUH, 2>>, <<txtRedHill, 1>>},
     ty \in MatchTypes, sc \in {6000, ScoreScale}}

DedupInputs ==
  UNION {[1..n -> MentionPool] : n \in 0..MaxMentions}

NotRun == [done |-> FALSE, out |-> <<>>]

Dedup ==
  /\ ~dOut.done
  /\ dOut' = [done |-> TRUE, out |-> deduplicateMentions(dIn)]
  /\ UNCHANGED <<fuseNear, embeddingsCache, call, dIn, batchCall, call2, app>>

InitDedup ==
  /\ fuseNear = 500
  /\ embeddingsCache = <<>>
  /\ call = IdleCall
  /\ dIn \in DedupInputs
  /\ dOut = NotRun
  /\ batchCall = IdleBatch
  /\ call2 = IdleCall
  /\ app = NoApp

SpecDedup == InitDedup /\ [][Dedup]_vars

\* ------------------------------------------------------------- the service

Init ==
  /\ fuseNear \in FuseLevels
  /\ embeddingsCache = <<>>
  /\ call = IdleCall
  /\ dIn = <<>>
  /\ dOut = NotRun
  /\ batchCall = IdleBatch
  /\ call2 = IdleCall
  /\ app = NoApp

Next ==
  \/ Extract
  \/ Extract_p008
  \/ \E which \in {"term", "segment"} : ProviderResolve(which)
  \/ \E which \in {"term", "segment"} : ProviderReject(which)
  \/ Respond

Spec == Init /\ [][Next]_vars

InitBatch == Init /\ fuseNear = 500

SpecCosine == InitBatch /\ [][ApplyCosine]_vars

SpecTopK == InitBatch /\ [][ApplyImplicit]_vars

SpecExplicit == InitBatch /\ [][ApplyExplicit]_vars

SpecMalformed == InitBatch /\ [][NextMalformed]_vars

SpecIds == InitBatch /\ [][ApplyFindMentions]_vars

SpecShort == InitBatch /\ [][NextShort]_vars

SpecEmb == InitBatch /\ [][NextEmb]_vars

SpecConc == InitBatch /\ [][NextConc]_vars

SpecBatch == InitBatch /\ [][NextBatch]_vars

\* The service and the stand-alone deduplication side by side: a behaviour is
\* either a run of the service (dIn stays empty) or one deduplication.
InitAll ==
  \/ Init
  \/ InitDedup /\ dIn # <<>>

NextAll ==
  \/ dIn = <<>> /\ Next
  \/ dIn # <<>> /\ Dedup

SpecAll == InitAll /\ [][NextAll]_vars

\* ================================================================ properties

sameKey(a, b) == a.term = b.term /\ a.segmentId = b.segmentId

\* explicit > fuzzy > implicit
Rank(matchType) ==
  CASE matchType = "explicit" -> 3
    [] matchType = "fuzzy" -> 2
    [] matchType = "implicit" -> 1

allMentionsOf(c) == c.explicit \o c.fuzzy \o c.implicit

\* C1: the list findMentions returns never holds two mentions with the same
\* (term, segmentId) pair.
C1_UniquePerTermAndSegment ==
  call.pc = "returned" =>
    \A i, j \in DOMAIN call.result :
      sameKey(call.result[i], call.result[j]) => i = j

\* A call has returned whose stages produced the same (term, segmentId)
\* more than once, so that deduplication had something to remove.
C1_Witness ==
  /\ call.pc = "returned"
  /\ \E i, j \in DOMAIN allMentionsOf(call) :
       i # j /\ sameKey(allMentionsOf(call)[i], allMentionsOf(call)[j])
  /\ call.result # <<>>

\* C2: for every (term, segmentId) of the input, deduplicateMentions keeps
\* exactly one mention, taken from the input, of the highest priority present
\* for that key and of the highest score among those of that priority; the
\* choice depends on the multiset of candidates only, not on their order.
C2_KeepsBestOfEachKey ==
  dOut.done =>
    \A i \in DOMAIN dIn :
      LET kept == {k \in DOMAIN dOut.out : sameKey(dOut.out[k], dIn[i])}
      IN  /\ Cardinality(kept) = 1
          /\ \A k \in kept :
               /\ \E j \in DOMAIN dIn : dIn[j] = dOut.out[k]
               /\ \A j \in DOMAIN dIn :
                    sameKey(dIn[j], dIn[i]) =>
                      \/ Rank(dOut.out[k].matchType) > Rank(dIn[j].matchType)
                      \/ /\ Rank(dOut.out[k].matchType) = Rank(dIn[j].matchType)
                         /\ dOut.out[k].score >= dIn[j].score

\* One key arrives first as a fuzzy mention with the higher score, then as
\* two explicit mentions with the lower and the higher score: the explicit
\* mention with the higher score is the one kept.
C2_Witness ==
  /\ dOut.done
  /\ Len(dIn) = 3
  /\ sameKey(dIn[1], dIn[2]) /\ sameKey(dIn[2], dIn[3])
  /\ dIn[1].matchType = "fuzzy" /\ dIn[1].score = ScoreScale
  /\ dIn[2].matchType = "explicit" /\ dIn[2].score = 6000
  /\ dIn[3].matchType = "explicit" /\ dIn[3].score = ScoreScale
  /\ dOut.out = <<dIn[3]>>

ordered(ms) ==
  \A i, j \in DOMAIN ms :
    i < j =>
      \/ Rank(ms[i].matchType) > Rank(ms[j].matchType)
      \/ /\ Rank(ms[i].matchType) = Rank(ms[j].matchType)
         /\ ms[i].score >= ms[j].score

\* C3: the list returned by findMentions, and the list deduplicateMentions
\* returns for any input, is ordered by priority descending and, within a
\* priority, by score descending.
C3_OrderedByPriorityThenScore ==
  /\ call.pc = "returned" => ordered(call.result)
  /\ dOut.done => ordered(dOut.out)

\* A deduplication whose input had the three keys in ascending order of
\* priority and had to be reordered.
C3_WitnessDedup ==
  /\ dOut.done
  /\ Len(dOut.out) = 3
  /\ dIn[1].matchType = "implicit" /\ dIn[2].matchType = "fuzzy"
  /\ dIn[3].matchType = "explicit"
  /\ dOut.out[1] = dIn[3]

\* What the call c returns when it is run on an empty cache and the provider
\* answers both batches.
coldResult(c) ==
  IF c.version = "head" THEN findMentions(c.terms, c.segments, c.options).result
  ELSE
    LET c0 == findMentions_p008(c.terms, c.segments, c.options, <<>>)
        tb == c0.termBatch
        sb == c0.segmentBatch
        cache1 == cacheAfterFetch(<<>>, tb.missing, providerResponse(tb.missing))
        cache2 == cacheAfterFetch(cache1, sb.missing, providerResponse(sb.missing))
        tb1 == [tb EXCEPT !.state = "resolved",
                          !.value = batchReturn(tb.normalized, cache1)]
        sb1 == [sb EXCEPT !.state = "resolved",
                          !.value = batchReturn(sb.normalized, cache2)]
    IN  IF c0.pc = "awaiting" THEN completeCall(c0, tb1, sb1).result
        ELSE c0.result

\* C4: with a deterministic provider, a call of findMentions that returns,
\* whatever the embeddings cache held when it started and whichever batch
\* was answered first, returns the list the same call returns on an empty
\* cache; hence two calls with identical inputs return identical lists.
C4_ResultIndependentOfCache ==
  call.pc = "returned" => call.result = coldResult(call)

\* A call ran its implicit stage entirely from the cache (no provider call)
\* and produced implicit mentions.
C4_Witness ==
  /\ call.pc = "returned"
  /\ call.version = "p008"
  /\ call.implicit # <<>>
  /\ call.sent = <<>>
  /\ embeddingsCache # <<>>

segmentIdsOf(ms) == {ms[i].segmentId : i \in DOMAIN ms}

\* C5: within one call, no fuzzy mention is on a segment the explicit stage
\* claimed, no implicit mention is on a segment the explicit or the fuzzy
\* stage claimed, and two returned mentions on one segment have one matchType.
C5_ClaimedSegmentsAreSkipped ==
  call.pc = "returned" =>
    /\ segmentIdsOf(call.fuzzy) \cap segmentIdsOf(call.explicit) = {}
    /\ segmentIdsOf(call.implicit)
         \cap (segmentIdsOf(call.explicit) \cup segmentIdsOf(call.fuzzy)) = {}
    /\ \A i, j \in DOMAIN call.result :
         call.result[i].segmentId = call.result[j].segmentId =>
           call.result[i].matchType = call.result[j].matchType

\* All three stages produced mentions, and the fuzzy stage would have matched
\* a segment of the explicit stage had it not been claimed.
C5_Witness ==
  /\ call.pc = "returned"
  /\ call.version = "p008"
  /\ call.explicit # <<>> /\ call.fuzzy # <<>> /\ call.implicit # <<>>
  /\ segmentIdsOf(findFuzzyMentions_p008(asTerms_p008(call.terms), call.segments,
                    {}, [threshold |-> call.options.fuzzyThreshold,
                         minMatchCharLength |-> 3]))
       \cap segmentIdsOf(call.explicit) # {}

typesOf(ms) == {ms[i].matchType : i \in DOMAIN ms}

\* C6: a stage the caller switched off contributes no mention: useExplicit
\* false, no explicit mention; useFuzzy false, no fuzzy mention; useImplicit
\* false, no implicit mention.
C6_DisabledStageContributesNothing ==
  call.pc = "returned" =>
    /\ ~call.options.useExplicit => "explicit" \notin typesOf(call.result)
    /\ ~call.options.useFuzzy => "fuzzy" \notin typesOf(call.result)
    /\ ~call.options.useImplicit => "implicit" \notin typesOf(call.result)

\* C7: batchGetEmbeddings never rejects: a batch whose provider call failed
\* still resolves, with one entry per text.
C7_BatchNeverRejects ==
  \A which \in {"term", "segment"} :
    /\ batchOf(call, which).state # "rejected"
    /\ batchOf(call, which).state = "resolved" =>
         Len(batchOf(call, which).value) = Len(batchOf(call, which).normalized)

\* C8: a call of findMentions whose implicit stage was started never rejects:
\* it returns, and what the explicit and fuzzy stages found is in the result.
C8_EmbeddingFailureDoesNotAbort ==
  (call.version = "p008" /\ call.implicitTerms # <<>>) =>
    /\ call.pc # "rejected"
    /\ call.pc = "returned" =>
         \A i \in DOMAIN (call.explicit \o call.fuzzy) :
           \E k \in DOMAIN call.result :
             sameKey(call.result[k], (call.explicit \o call.fuzzy)[i])

\* C9: with an empty list of terms findMentions returns the empty list and
\* sends nothing to the embeddings provider.
C9_NoTermsNoWork ==
  (call.pc # "idle" /\ call.terms = <<>>) =>
    /\ call.pc = "returned"
    /\ call.result = <<>>
    /\ call.sent = <<>>
    /\ call.termBatch.state # "pending"
    /\ call.segmentBatch.state # "pending"

\* No terms, three segments, every stage on, nothing cached.
C9_Witness ==
  /\ call.pc = "returned"
  /\ call.version = "p008"
  /\ call.terms = <<>>
  /\ Len(call.segments) = 3
  /\ call.options.useExplicit /\ call.options.useFuzzy /\ call.options.useImplicit
  /\ embeddingsCache = <<>>

scoresInRange(ms) == \A i \in DOMAIN ms : 0 <= ms[i].score /\ ms[i].score <= ScoreScale

\* C10 as stated: every returned mention has 0 <= score <= 1, whatever
\* thresholds the caller passed.
C10_ScoreInUnitIntervalAnyThreshold ==
  call.pc = "returned" => scoresInRange(call.result)

\* C10: every returned mention has 0 <= score <= 1 when the thresholds the
\* caller passed lie in the documented range from 0 to 1.
C10_ScoreInUnitInterval ==
  (/\ call.pc = "returned"
   /\ call.options.implicitThreshold \in 0..ScoreScale
   /\ call.options.fuzzyThreshold \in 0..ScoreScale) =>
    scoresInRange(call.result)

\* A call returned mentions of all three kinds, the implicit one strictly
\* inside the interval.
C10_Witness ==
  /\ call.pc = "returned"
  /\ call.options.implicitThreshold \in 0..ScoreScale
  /\ typesOf(call.result) = MatchTypes
  /\ \E i \in DOMAIN call.result :
       /\ call.result[i].matchType = "implicit"
       /\ call.result[i].score = 8000

\* C11: batchGetEmbeddings(texts) returns as many vectors as texts, the i-th
\* being the provider's vector of the normalized form of texts[i], with
\* repeated texts and with hits and misses mixed.
C11_VectorsInRequestOrder ==
  batchCall.pc = "returned" =>
    /\ Len(batchCall.b.value) = Len(batchCall.texts)
    /\ \A i \in DOMAIN batchCall.texts :
         batchCall.b.value[i] = providerVector(norm(batchCall.texts[i]))

\* A request of three texts, two with one normalized form, one text cached
\* when the call started and one fetched.
C11_Witness ==
  /\ batchCall.pc = "returned"
  /\ Len(batchCall.texts) = 3
  /\ norm(batchCall.texts[1]) = norm(batchCall.texts[3])
  /\ batchCall.texts[1] # batchCall.texts[3]
  /\ norm(batchCall.texts[2]) \in DOMAIN batchCall.startCache
  /\ norm(batchCall.texts[1]) \notin DOMAIN batchCall.startCache

\* C12: one batchGetEmbeddings call sends at most one request to the
\* provider; the texts sent are the distinct normalized texts of the request
\* absent from the cache when the call started, each once; nothing is sent
\* when every text is cached.
C12_OneCallForTheMisses ==
  batchCall.pc # "idle" =>
    LET wanted == {norm(batchCall.texts[i]) : i \in DOMAIN batchCall.texts}
                     \ DOMAIN batchCall.startCache
    IN  /\ Len(batchCall.sent) <= 1
        /\ wanted = {} <=> batchCall.sent = <<>>
        /\ \A k \in DOMAIN batchCall.sent :
             /\ Range(batchCall.sent[k]) = wanted
             /\ Len(batchCall.sent[k]) = Cardinality(wanted)

\* Three texts, two distinct normalized forms missing (one of them asked
\* twice) and the cache not empty: one request of two texts.
C12_Witness ==
  /\ batchCall.pc = "returned"
  /\ Len(batchCall.texts) = 3
  /\ batchCall.startCache # <<>>
  /\ Len(batchCall.sent) = 1
  /\ Len(batchCall.sent[1]) = 2
  /\ norm(batchCall.texts[1]) = norm(batchCall.texts[2])

\* C13: the embedding cache is append-only: no step of any call, with two
\* calls interleaving at their awaits, removes a key from the cache.
C13_CacheKeysOnlyGrow ==
  [][DOMAIN embeddingsCache \subseteq DOMAIN embeddingsCache']_vars

\* Both calls are suspended at their awaits and one batch has already been
\* written to the cache.
C13_Witness ==
  /\ call.pc = "awaiting"
  /\ call2.pc = "awaiting"
  /\ embeddingsCache # <<>>
  /\ \E which \in {"term", "segment"} : batchOf(call, which).state = "resolved"

\* C14: the claimed segments are local to a call: with two calls in flight or
\* one after the other, each call that returns returns the list it returns
\* when run alone.
C14_SameAsAlone ==
  /\ call.pc = "returned" => call.result = coldResult(call)
  /\ call2.pc = "returned" => call2.result = coldResult(call2)

\* While the first call, which claimed a segment in its explicit stage, is
\* suspended, the second call returns an implicit mention on that segment.
C14_Witness ==
  /\ call.pc = "awaiting"
  /\ call.explicit # <<>>
  /\ call2.pc = "returned"
  /\ segmentIdsOf(call2.implicit) \cap segmentIdsOf(call.explicit) # {}

\* C15: the term batch and the segment batch are requested together and may
\* both be in flight; while either is unresolved no similarity has been
\* computed: the call has not returned and holds no implicit mention.
C15_NoSimilarityBeforeBothResolve ==
  (call.termBatch.state \in {"pending", "rejected"}
     \/ call.segmentBatch.state \in {"pending", "rejected"}) =>
    /\ call.pc # "returned"
    /\ call.implicit = <<>>

\* Both requests were sent before either answer, both have resolved and the
\* similarities gave a mention.
C15_Witness ==
  /\ call.pc = "returned"
  /\ Len(call.sent) = 2
  /\ call.termBatch.state = "resolved"
  /\ call.segmentBatch.state = "resolved"
  /\ call.implicit # <<>>

normSquared(v) == sumTo([i \in DOMAIN v |-> v[i] * v[i]], Len(v))

\* C16: cosineSimilarity(a, b) equals cosineSimilarity(b, a) for every pair
\* of vectors, and is 0 whenever a or b has zero norm, the empty vector
\* included, in either position.
C16_SymmetricAndZeroOnZeroNorm ==
  app.fn = "cosineSimilarity" =>
    /\ app.out = cosineSimilarity(app.args[2], app.args[1])
    /\ (normSquared(app.args[1]) = 0 \/ normSquared(app.args[2]) = 0) =>
         app.out = Frac(0, 1)

strictlyGreater(x, y) == ~x.nan /\ ~y.nan /\ x.num * y.den > y.num * x.den

\* The similarity of term ti and segment si, recomputed from the embeddings.
similarityOf(a, ti, si) ==
  cosineSimilarity(a.termEmbeddings[ti].vec, a.segmentEmbeddings[si].vec)

\* The segments (as indices) the output holds a mention of term ti for.
emittedFor(a, out, ti) ==
  {si \in DOMAIN TopKSegments :
     \E k \in DOMAIN out : /\ out[k].termId = a.terms[ti].id
                           /\ out[k].segmentId = TopKSegments[si].id}

mentionsOfTerm(a, out, ti) == {k \in DOMAIN out : out[k].termId = a.terms[ti].id}

\* C17: for each term the implicit stage emits at most topKPerTerm mentions,
\* each of a segment whose similarity is at least the threshold, and no
\* segment left out has a similarity strictly greater than an emitted one.
C17_TopKOfThoseAboveThreshold ==
  app.fn = "findImplicitMentions" =>
    \A ti \in DOMAIN app.args.terms :
      LET emitted == emittedFor(app.args, app.out, ti)
      IN  /\ Cardinality(mentionsOfTerm(app.args, app.out, ti)) <= app.args.topKPerTerm
          /\ \A si \in emitted :
               scoreAtLeast(similarityOf(app.args, ti, si), app.args.threshold)
          /\ \A si \in emitted, sj \in DOMAIN TopKSegments \ emitted :
               ~strictlyGreater(similarityOf(app.args, ti, sj),
                                similarityOf(app.args, ti, si))

\* A term with more segments above the threshold than topKPerTerm, of
\* distinct similarities, so that the cut leaves a lower one out.
C17_Witness ==
  /\ app.fn = "findImplicitMentions"
  /\ app.args.topKPerTerm >= 1
  /\ \E ti \in DOMAIN app.args.terms :
       LET emitted == emittedFor(app.args, app.out, ti)
       IN  /\ Cardinality(emitted) = app.args.topKPerTerm
           /\ \E si \in emitted, sj \in DOMAIN TopKSegments \ emitted :
                /\ scoreAtLeast(similarityOf(app.args, ti, sj), app.args.threshold)
                /\ strictlyGreater(similarityOf(app.args, ti, si),
                                   similarityOf(app.args, ti, sj))

\* The filter of findImplicitMentions: the terms meant for semantic matching.
semanticallyEligible(t) ==
  t.category = "metonymy" \/ t.isExplicit = "false" \/ t.category = "geo"

\* C18: every mention of matchType 'implicit' that findMentions returns
\* refers to a term eligible for semantic matching, also when no term of
\* the input is eligible.
C18_ImplicitOnlyForEligibleTerms ==
  call.pc = "returned" =>
    \A k \in DOMAIN call.result :
      call.result[k].matchType = "implicit" =>
        \E i \in DOMAIN call.terms :
          /\ call.terms[i].id = call.result[k].termId
          /\ semanticallyEligible(call.terms[i])

\* The mentions of the list that refer to the term and the segment.
mentionsOfPair(ms, term, seg) ==
  {k \in DOMAIN ms : ms[k].termId = term.id /\ ms[k].segmentId = seg.id}

\* C19: with the implicit stage enabled and threshold 0.75, the eligible
\* term 'Red Hill', which has no literal match in the unclaimed segment
\* 'fuel tanks leaked' and whose similarity with it is 0.80, has exactly one
\* mention for that segment in the list findMentions returns, of matchType
\* 'implicit' and score 0.80.
C19_OneImplicitMentionAtPointEight ==
  ( /\ call.pc = "returned"
    /\ call.options.useImplicit
    /\ call.options.implicitThreshold = DEFAULT_IMPLICIT_THRESHOLD
    /\ \E i \in DOMAIN call.terms : call.terms[i] = termRedHill
    /\ \E j \in DOMAIN call.segments : call.segments[j] = segFuel
    /\ NumStr(segFuel.id) \notin claimedBy(call.explicit) \cup claimedBy(call.fuzzy) )
  => /\ Cardinality(mentionsOfPair(call.result, termRedHill, segFuel)) = 1
     /\ \A k \in mentionsOfPair(call.result, termRedHill, segFuel) :
          /\ call.result[k].matchType = "implicit"
          /\ call.result[k].score = (8 * ScoreScale) \div 10

\* C20: findExplicitMatches emits at most one mention per (term, segment)
\* pair, that of the first variant (text, then the aliases in order) that
\* matches; later variants and further occurrences add no mention.
C20_OneMentionPerTermAndSegment ==
  app.fn = "findExplicitMatches" =>
    \A ti \in DOMAIN app.args.terms, si \in DOMAIN app.args.segments :
      Cardinality(mentionsOfPair(app.out, app.args.terms[ti],
                                 app.args.segments[si])) <= 1

\* C21: the list findFuzzyMentions returns holds at most one mention per
\* segment, however many word windows of the segment clear the threshold.
C21_OneFuzzyMentionPerSegment ==
  \A k1 \in DOMAIN call.fuzzy, k2 \in DOMAIN call.fuzzy :
    call.fuzzy[k1].segmentId = call.fuzzy[k2].segmentId => k1 = k2

\* C22: the term 'RCUH' and a segment that contains 'RCUH' give exactly one
\* explicit mention for the pair, of score 1.0, whose matchedText is the
\* text as the segment has it, 'RCUH'.
C22_MatchedTextAsInSegment ==
  ( /\ app.fn = "findExplicitMatches"
    /\ \E i \in DOMAIN app.args.terms : app.args.terms[i] = termRCUH
    /\ \E j \in DOMAIN app.args.segments : app.args.segments[j] = segFunded )
  => /\ Cardinality(mentionsOfPair(app.out, termRCUH, segFunded)) = 1
     /\ \A k \in mentionsOfPair(app.out, termRCUH, segFunded) :
          /\ app.out[k].matchType = "explicit"
          /\ app.out[k].score = ScoreScale
          /\ app.out[k].matchedText = txtRCUH

\* C23: the variant 'University of Hawaii' and a segment that holds its
\* tokens in order, separated by two spaces and by a newline, give exactly
\* one explicit mention for the pair, of score 0.95.
C23_FlexibleWhitespaceScore ==
  ( /\ app.fn = "findExplicitMatches"
    /\ \E i \in DOMAIN app.args.terms : app.args.terms[i] = termUH
    /\ \E j \in DOMAIN app.args.segments : app.args.segments[j] = segIrregular )
  => /\ Cardinality(mentionsOfPair(app.out, termUH, segIrregular)) = 1
     /\ \A k \in mentionsOfPair(app.out, termUH, segIrregular) :
          /\ app.out[k].matchType = "explicit"
          /\ app.out[k].score = (95 * ScoreScale) \div 100

\* C24: the generic single-token term 'Board' (category education) gets no
\* mention in a segment that holds the token 'board' and no corroborating
\* context token around it.
C24_GenericTermNeedsContext ==
  ( /\ app.fn = "findExplicitMatches"
    /\ \E i \in DOMAIN app.args.terms : app.args.terms[i] = termBoard
    /\ \E j \in DOMAIN app.args.segments : app.args.segments[j] = segCollegeBoard )
  => mentionsOfPair(app.out, termBoard, segCollegeBoard) = {}

\* C25: findMentions does not throw on data of poor quality: with terms or
\* segments that are empty or whose records lack a text or carry aliases
\* that are not strings, the call returns a list.
C25_NeverThrowsOnBadData == call.pc # "rejected"

\* C26: a raw term whose label is empty or blank contributes no mention to
\* the list findMentions returns, also when it has an alias that occurs in
\* a segment; no returned mention has an empty term.
C26_BlankTermsDropped ==
  call.pc = "returned" =>
    \A k \in DOMAIN call.result :
      /\ trim(call.result[k].term) # <<>>
      /\ \A i \in DOMAIN call.terms :
           (trim(call.terms[i].text) = <<>> /\ trim(call.terms[i].term) = <<>>)
             => call.result[k].termId # call.terms[i].id

\* C27: two mentions of one findMentions output that differ in term or in
\* segmentId never have the same id, terms that differ only in whitespace
\* versus underscore or only after their 40th character included.
C27_IdsUnique ==
  app.fn = "findMentions" =>
    \A k1 \in DOMAIN app.out, k2 \in DOMAIN app.out :
      (app.out[k1].term # app.out[k2].term
         \/ app.out[k1].segmentId # app.out[k2].segmentId)
        => app.out[k1].id # app.out[k2].id

\* The requests to the provider that have not been answered yet.
inFlight ==
  {b \in {<<1, call.termBatch>>, <<2, call.segmentBatch>>,
          <<3, call2.termBatch>>, <<4, call2.segmentBatch>>} :
     b[2].state = "pending"}

\* C28: under every interleaving of the batches that share the cache, a
\* normalized text is sent to the provider at most once: no text is in two
\* unanswered requests, and no unanswered request holds a text that the
\* answer to another request has already put in the cache.
C28_EachTextSentOnce ==
  \A b1 \in inFlight :
    /\ Range(b1[2].missing) \cap DOMAIN embeddingsCache = {}
    /\ \A b2 \in inFlight \ {b1} :
         Range(b1[2].missing) \cap Range(b2[2].missing) = {}

\* C29: after any sequence of batchGetEmbeddings calls, also when the
\* provider answers with fewer vectors than texts, every key of the cache
\* maps to a vector, never to undefined.
C29_CacheHoldsVectorsOnly ==
  \A k \in DOMAIN embeddingsCache : embeddingsCache[k].def

\* C30: for every list L, every element of deduplicateMentions(L) is an
\* element of L, every (term, segmentId) key of L occurs in the result, and
\* deduplicateMentions applied to the result returns the result, in the
\* same order.
C30_IdempotentAndSelective ==
  dOut.done =>
    /\ \A k \in DOMAIN dOut.out : \E i \in DOMAIN dIn : dIn[i] = dOut.out[k]
    /\ \A i \in DOMAIN dIn :
         \E k \in DOMAIN dOut.out : mentionKey(dOut.out[k]) = mentionKey(dIn[i])
    /\ deduplicateMentions(dOut.out) = dOut.out

\* An input of three mentions, two of one key and two that tie in priority
\* and score, whose result holds two mentions in an order that is not the
\* input's.
C30_Witness ==
  /\ dOut.done
  /\ Len(dIn) = 3
  /\ Len(dOut.out) = 2
  /\ mentionKey(dIn[1]) = mentionKey(dIn[3])
  /\ dOut.out[1].matchType = dOut.out[2].matchType
  /\ dOut.out[1].score = dOut.out[2].score
  /\ dOut.out # <<dIn[1], dIn[2]>>

====
